---- MODULE Spec2Model ----
(***************************************************************************)
(* DraftCraft: session execution engine.                                   *)
(*                                                                         *)
(*   SpecTrim     the pure history trim (trimHistory)                      *)
(*   Spec         the Discord session engine: chat turns, finalize, reset  *)
(*   SpecChat     chat turns on two channels: busy guard, reset, close     *)
(*   SpecHistory  long single-channel conversations (turns and resets)     *)
(*   SpecPair     two sessions side by side: turns, finalize, reset, close *)
(*   SpecCycle    finalize cycles on one channel with every ending         *)
(*   SpecOwner    the owner and another member acting on one channel       *)
(*   SpecLive     SpecHistory with every await of a turn settling          *)
(*   SpecRunner   the process runner (runCodex) and its exit notification  *)
(*   SpecIds      run ids and log paths of successive runCodex calls       *)
(*   SpecFlush    the streaming flush policy inside finalizeAndRun         *)
(*   SpecRouter   the executor routing decision (selectExecutor)           *)
(*   SpecProbe    the project probe cache of a CLI session                 *)
(*   SpecCli      the CLI session: turns, /engine, /finalize and /run      *)
(***************************************************************************)
EXTENDS Integers, Sequences, FiniteSets, TLC

(***************************************************************************)
(* Messages                                                                *)
(***************************************************************************)
\* The leading system message of every history (SYSTEM_PROMPT).
SysMsg == [role |-> "system", content |-> 0]

Msg(r, c) == [role |-> r, content |-> c]

\* Array.prototype.slice(-n): the last n elements; slice(-0) is slice(0),
\* the whole array.
SliceLast(s, n) ==
  IF n = 0 THEN s
  ELSE IF n >= Len(s) THEN s
  ELSE SubSeq(s, Len(s) - n + 1, Len(s))

\* Mutant: keeps the OLDEST max messages (rest.slice(0, max)).
trimHistoryKeepOldest(history, maxHistoryMessages) ==
  IF Len(history) <= maxHistoryMessages + 1 THEN history
  ELSE <<history[1]>> \o SubSeq(Tail(history), 1, maxHistoryMessages)

\* Mutant: slices the whole history, losing the system message.
trimHistoryDropSystem(history, maxHistoryMessages) ==
  IF Len(history) <= maxHistoryMessages + 1 THEN history
  ELSE SliceLast(history, maxHistoryMessages + 1)

trimHistory(history, maxHistoryMessages) ==
  IF Len(history) <= maxHistoryMessages + 1 THEN history
  ELSE LET system == IF Len(history) >= 1 THEN history[1] ELSE SysMsg
           rest == Tail(history)
       IN <<system>> \o SliceLast(rest, maxHistoryMessages)

\* MAX_HISTORY_MESSAGES: z.coerce.number().int().min(10)
MinHistoryMessages == 10

(***************************************************************************)
(* Bounds                                                                  *)
(***************************************************************************)
\* SpecTrim: maxHistoryMessages ranges over MinHistoryMessages .. +MaxSpread
MaxSpread == 1
\* SpecTrim: a history holds up to maxHistoryMessages + MaxExtra messages
\* after the system message before it is trimmed
MaxExtra == 2

\* SpecChat: chat turns accepted over both channels
MaxTurns == 2
\* Spec: chat turns accepted
MaxFinalizeTurns == 1
\* Spec: finalize cycles accepted
MaxFinalizes == 2
\* SpecHistory: chat turns accepted on the one channel
MaxHistoryTurns == 7

VARIABLES
  tHist,   \* SpecTrim: the history handed to trimHistory
  tMax,    \* SpecTrim: maxHistoryMessages
  tOut,    \* SpecTrim: <<>> before the call, <<result>> after it
  config,              \* loadDiscordConfig(): templates, executorMode, maxHistoryMessages
  chanState,           \* per channel: "none" | "open" | "closing" | "deleted"
  sessions,            \* per channel: TRUE when the sessions map holds an object for it
  history,             \* session.history of the registered object
  executorMode,        \* session.executorMode of the registered object
  finalizing,          \* session.finalizing of the registered object
  processingChannels,  \* the set of channel ids with a chat turn in flight
  turns,               \* per channel: the callLlmForChat invocations in flight
  fins,                \* per channel: the finalizeAndRun invocations in flight
  promptFiles,         \* per channel: the prompt files written, oldest first
  runs,                \* per channel: the Runs started, oldest first
  event,               \* the handler step taken last and its outcome
  nTurns,              \* chat turns accepted so far
  nFins,               \* finalize cycles accepted so far
  rVariant,        \* SpecRunner: which runCodex ("pty" | "child_process")
  rCallback,       \* SpecRunner: what the caller's onExit does when invoked
  rSpawn,          \* SpecRunner: how the spawn of this Run turns out
  rPc,             \* SpecRunner: "idle" | "returned" | "threw" (the call of runCodex)
  rProc,           \* SpecRunner: the spawned process as the runner sees it
  rLog,            \* SpecRunner: the lines of the log file, oldest first
  rExitCalls,      \* SpecRunner: the codes onExit was invoked with, oldest first
  exitNotified,    \* SpecRunner: the fire-once flag of notifyExit
  rThrown,         \* SpecRunner: where an exception of onExit ended up
  rPendingReject,  \* SpecRunner: a rejected onExit promise awaits its .catch handler
  rArrived,        \* SpecRunner: the data events of the process, as they arrived
  rOnLog,          \* SpecRunner: the onLog calls: the chunk, and the log length then
  rClock,          \* SpecIds: the system clock in milliseconds
  rHandles,        \* SpecIds: the handles runCodex returned, oldest first
  streamBuffer,    \* SpecFlush: the accumulation buffer (segments)
  flushTimer,      \* SpecFlush: TRUE while a delayed flush is pending
  flushing,        \* SpecFlush: TRUE while an emission is outbound
  outbound,        \* SpecFlush: pieces of the outbound emission still to send
  emissions,       \* SpecFlush: the outputs handed to sendLongCodeBlock, oldest first
  sent,            \* SpecFlush: the channel.send calls issued, oldest first
  fed,             \* SpecFlush: the segments handed to onLog, oldest first
  nChunks,         \* SpecFlush: chunks handed to onLog so far
  fExit,           \* SpecFlush: "running" | "waiting" (onExit awaits its flush) | "done"
  rtMode,          \* SpecRouter: options.mode
  rtCfg,           \* SpecRouter: which command templates are configured
  rtText,          \* SpecRouter: options.historyText
  rtChat,          \* SpecRouter: what the Chat Client does when called
  rtPc,            \* SpecRouter: "idle" | "classifying" | "done"
  rtResult,        \* SpecRouter: what selectExecutor returned or that it threw
  rtCalls,         \* SpecRouter: the Chat Client calls issued by the router
  pCache,          \* SpecProbe: state.projectContextCache, per subject
  pPc,             \* SpecProbe: where the CLI loop and resolveProjectContext stand
  pRuns,           \* SpecProbe: per subject, the probe Runs started
  pSumm,           \* SpecProbe: per subject, the summarization calls issued
  pOut,            \* SpecProbe: the context of the last completed resolution
  pTurns,          \* SpecProbe: user messages read so far
  pLatest,         \* SpecCli: state.latestPromptPath and latestPromptText
  cliMode,         \* SpecCli: state.executorMode
  cliHistory,      \* SpecCli: state.history
  cliChats,        \* SpecCli: reply calls issued for the message being handled
  cliSaved,        \* SpecCli: the prompt files written by savePrompt, oldest first
  cliRuns,         \* SpecCli: the Runs started by /run, oldest first
  cliOp,           \* SpecCli: the /finalize or /run command in progress
  cliEvent,        \* SpecCli: the step just taken, what the Chat Client did in it, its outcome
  cliOut           \* SpecCli: the explanation last written by /run

trimVars == <<tHist, tMax, tOut>>

sessVars == <<config, chanState, sessions, history, executorMode, finalizing,
              processingChannels, turns, fins, promptFiles, runs, event,
              nTurns, nFins>>

runVars == <<rVariant, rCallback, rSpawn, rPc, rProc, rLog, rExitCalls,
             exitNotified, rThrown, rPendingReject, rArrived, rOnLog, rClock,
             rHandles>>

flushVars == <<streamBuffer, flushTimer, flushing, outbound, emissions, sent,
               fed, nChunks, fExit>>

routeVars == <<rtMode, rtCfg, rtText, rtChat, rtPc, rtResult, rtCalls>>

probeVars == <<pCache, pPc, pRuns, pSumm, pOut, pTurns, pLatest, cliMode,
               cliHistory, cliChats, cliSaved, cliRuns, cliOp, cliEvent, cliOut>>

\* the subject names a message can carry
Subjects == {"s1", "s2"}

\* the CLI loop waits for a line
ProbeWaiting == [ph |-> "idle", names |-> <<>>, resolved |-> <<>>, line |-> <<>>]

\* SpecProbe's variables at rest, for the other specifications: an empty
\* cache, no message read
NoEntry == [has |-> FALSE, text |-> <<>>]
\* latestPromptPath: null, latestPromptText: null
NoLatest == [path |-> 0, text |-> "none"]
\* no /finalize or /run in progress
NoCommand ==
  [cmd |-> "none", prompt |-> "none", executor |-> "none", code |-> "none",
   saved0 |-> 0, runs0 |-> 0]
NoCliEvent == [op |-> "none", chat |-> "none", res |-> "none"]

\* the state of startCli before the first line, for the mode configured
CliStart(mode) ==
  /\ pCache = [s \in Subjects |-> NoEntry]
  /\ pPc = ProbeWaiting
  /\ pRuns = [s \in Subjects |-> 0]
  /\ pSumm = [s \in Subjects |-> 0]
  /\ pOut = <<>>
  /\ pTurns = 0
  /\ pLatest = NoLatest
  /\ cliMode = mode
  /\ cliHistory = <<SysMsg>>
  /\ cliChats = 0
  /\ cliSaved = <<>>
  /\ cliRuns = <<>>
  /\ cliOp = NoCommand
  /\ cliEvent = NoCliEvent
  /\ cliOut = <<>>

ProbeIdle == CliStart("codex")

\* SpecTrim's variables at rest, for the other specifications
TrimIdle == tHist = <<SysMsg>> /\ tMax = MinHistoryMessages /\ tOut = <<>>

\* SpecRunner's variables at rest, for the other specifications
RunIdle ==
  /\ rVariant = "pty"
  /\ rCallback = "returns"
  /\ rSpawn = "ok"
  /\ rPc = "idle"
  /\ rProc = "none"
  /\ rLog = <<>>
  /\ rExitCalls = <<>>
  /\ exitNotified = FALSE
  /\ rThrown = "none"
  /\ rPendingReject = FALSE
  /\ rArrived = <<>>
  /\ rOnLog = <<>>
  /\ rClock = 0
  /\ rHandles = <<>>

\* SpecFlush's variables at rest: let streamBuffer = "", flushTimer = null,
\* flushing = false
FlushIdle ==
  /\ streamBuffer = <<>>
  /\ flushTimer = FALSE
  /\ flushing = FALSE
  /\ outbound = 0
  /\ emissions = <<>>
  /\ sent = <<>>
  /\ fed = <<>>
  /\ nChunks = 0
  /\ fExit = "running"

\* SpecRouter's variables at rest, for the other specifications
RouteIdle ==
  /\ rtMode = "codex"
  /\ rtCfg = [codex |-> TRUE, claude |-> TRUE]
  /\ rtText = "h1"
  /\ rtChat = [ok |-> FALSE, response |-> <<>>]
  /\ rtPc = "idle"
  /\ rtResult = [kind |-> "none", executor |-> "none", reason |-> "none"]
  /\ rtCalls = 0

vars == <<tHist, tMax, tOut, config, chanState, sessions, history, executorMode,
          finalizing, processingChannels, turns, fins, promptFiles, runs, event,
          nTurns, nFins, rVariant, rCallback, rSpawn, rPc, rProc, rLog,
          rExitCalls, exitNotified, rThrown, rPendingReject, rArrived,
          rOnLog, rClock, rHandles, streamBuffer,
          flushTimer, flushing, outbound, emissions, sent, fed, nChunks, fExit,
          rtMode, rtCfg, rtText, rtChat, rtPc, rtResult, rtCalls,
          pCache, pPc, pRuns, pSumm, pOut, pTurns, pLatest, cliMode,
          cliHistory, cliChats, cliSaved, cliRuns, cliOp, cliEvent, cliOut>>

(***************************************************************************)
(* Session engine (Discord bot)                                            *)
(***************************************************************************)
Channels == {"c1", "c2"}

\* The user whose id createSessionChannel writes into the channel topic,
\* and another member of the guild.
Owner == "alice"
Users == {"alice", "bob"}

\* message.content after trim(): nothing, a retired "!" command, or text
MessageKinds == {"empty", "legacy", "text"}
UserTexts == {1}
\* what llm.chat returns for a chat turn
Replies == {2}
\* what llm.chat returns for the finalizer
PromptTexts == {"p1", "p2"}
\* what llm.chat returns for the router's classification, as its words
ClassifyResponses ==
  {<<"claude">>, <<"Claude", " ">>, <<" ", "claude", " ">>, <<"codex">>,
   <<"neither">>, <<>>}

Modes == {"codex", "claude", "auto"}

\* resolveBaseConfig(): at least one template, and a fixed mode has its template
ValidConfigs ==
  {cfg \in [codex : BOOLEAN, claude : BOOLEAN, executorMode : Modes,
            maxHistoryMessages : {MinHistoryMessages}] :
     /\ cfg.codex \/ cfg.claude
     /\ cfg.executorMode = "codex" => cfg.codex
     /\ cfg.executorMode = "claude" => cfg.claude}

NoEvent == [op |-> "none", chan |-> "none", res |-> "none"]
Ev(o, c, r) == [op |-> o, chan |-> c, res |-> r]

SessIdle ==
  /\ chanState = [c \in Channels |-> "none"]
  /\ sessions = [c \in Channels |-> FALSE]
  /\ history = [c \in Channels |-> <<>>]
  /\ executorMode = [c \in Channels |-> "none"]
  /\ finalizing = [c \in Channels |-> FALSE]
  /\ processingChannels = {}
  /\ turns = [c \in Channels |-> <<>>]
  /\ fins = [c \in Channels |-> <<>>]
  /\ promptFiles = [c \in Channels |-> <<>>]
  /\ runs = [c \in Channels |-> <<>>]
  /\ event = NoEvent
  /\ nTurns = 0
  /\ nFins = 0

RemoveAt(s, i) == SubSeq(s, 1, i - 1) \o SubSeq(s, i + 1, Len(s))

\* Mutant: the system message is not filtered out.
formatHistoryKeepSystem(h) == h

\* formatHistoryForFinalizer: the non-system messages, in order ("" when none)
formatHistoryForFinalizer(h) == SelectSeq(h, LAMBDA m : m.role # "system")

\* ensureSession(channel): the registered object, or a fresh one registered
\* from the owner id in the channel topic.  These give the object's fields.
EnsuredHistory(c) == IF sessions[c] THEN history[c] ELSE <<SysMsg>>
EnsuredMode(c) == IF sessions[c] THEN executorMode[c] ELSE config.executorMode
EnsuredFinalizing(c) == IF sessions[c] THEN finalizing[c] ELSE FALSE

ensureSession(c) ==
  /\ sessions' = [sessions EXCEPT ![c] = TRUE]
  /\ history' = [history EXCEPT ![c] = EnsuredHistory(c)]
  /\ executorMode' = [executorMode EXCEPT ![c] = EnsuredMode(c)]
  /\ finalizing' = [finalizing EXCEPT ![c] = EnsuredFinalizing(c)]

ChannelExists(c) == chanState[c] \in {"open", "closing"}

\* createSessionChannel: the panel button creates the channel and registers
\* its session
createSessionChannel(c) ==
  /\ chanState[c] = "none"
  /\ chanState' = [chanState EXCEPT ![c] = "open"]
  /\ sessions' = [sessions EXCEPT ![c] = TRUE]
  /\ history' = [history EXCEPT ![c] = <<SysMsg>>]
  /\ executorMode' = [executorMode EXCEPT ![c] = config.executorMode]
  /\ finalizing' = [finalizing EXCEPT ![c] = FALSE]
  /\ event' = NoEvent
  /\ UNCHANGED <<config, processingChannels, turns, fins, promptFiles, runs,
                 nTurns, nFins>>

(***************************************************************************)
(* Chat turns                                                              *)
(***************************************************************************)
\* Mutant: no busy check before the turn starts.
callLlmForChatNoGuard(c, text) ==
  /\ processingChannels' = processingChannels \cup {c}
  /\ sessions' = [sessions EXCEPT ![c] = TRUE]
  /\ history' = [history EXCEPT ![c] =
       trimHistory(Append(EnsuredHistory(c), Msg("user", text)),
                   config.maxHistoryMessages)]
  /\ executorMode' = [executorMode EXCEPT ![c] = EnsuredMode(c)]
  /\ finalizing' = [finalizing EXCEPT ![c] = EnsuredFinalizing(c)]
  /\ turns' = [turns EXCEPT ![c] = Append(@, [ph |-> "typing", det |-> FALSE])]
  /\ nTurns' = nTurns + 1
  /\ event' = Ev("message", c, "accepted")

\* callLlmForChat up to its first await: the busy check, then the guard is
\* taken, the user message pushed and the history trimmed
callLlmForChat(c, text) ==
  IF c \in processingChannels
  THEN /\ ensureSession(c)
       /\ event' = Ev("message", c, "Busy")
       /\ UNCHANGED <<processingChannels, turns, nTurns>>
  ELSE /\ processingChannels' = processingChannels \cup {c}
       /\ sessions' = [sessions EXCEPT ![c] = TRUE]
       /\ history' = [history EXCEPT ![c] =
            trimHistory(Append(EnsuredHistory(c), Msg("user", text)),
                        config.maxHistoryMessages)]
       /\ executorMode' = [executorMode EXCEPT ![c] = EnsuredMode(c)]
       /\ finalizing' = [finalizing EXCEPT ![c] = EnsuredFinalizing(c)]
       /\ turns' = [turns EXCEPT ![c] = Append(@, [ph |-> "typing", det |-> FALSE])]
       /\ nTurns' = nTurns + 1
       /\ event' = Ev("message", c, "accepted")

\* Mutant: no owner check on a message.
messageCreateAnyUser(c, u, kind, text) ==
  /\ ChannelExists(c)
  /\ callLlmForChat(c, text)
  /\ UNCHANGED <<config, chanState, fins, promptFiles, runs, nFins>>

\* client.on("messageCreate")
messageCreate(c, u, kind, text) ==
  /\ ChannelExists(c)
  /\ IF u # Owner
     THEN /\ ensureSession(c)
          /\ event' = Ev("message", c, "NotOwner")
          /\ UNCHANGED <<processingChannels, turns, nTurns>>
     ELSE IF kind = "empty"
     THEN /\ ensureSession(c)
          /\ event' = Ev("message", c, "ignored")
          /\ UNCHANGED <<processingChannels, turns, nTurns>>
     ELSE IF kind = "legacy"
     THEN /\ ensureSession(c)
          /\ event' = Ev("message", c, "ignored")
          /\ UNCHANGED <<processingChannels, turns, nTurns>>
     ELSE callLlmForChat(c, text)
  /\ UNCHANGED <<config, chanState, fins, promptFiles, runs, nFins>>

\* await channel.sendTyping() settles: llm.chat(session.history) is issued,
\* or the catch block reports the failure
TurnTypingSettles(c, i, ok) ==
  /\ i \in 1 .. Len(turns[c])
  /\ turns[c][i].ph = "typing"
  /\ turns' = [turns EXCEPT ![c][i].ph = IF ok THEN "chat" ELSE "send"]
  /\ event' = NoEvent
  /\ UNCHANGED <<config, chanState, sessions, history, executorMode, finalizing,
                 processingChannels, fins, promptFiles, runs, nTurns, nFins>>

\* await llm.chat(session.history) returns: the reply is pushed onto the
\* history of the session object the turn started with, which is trimmed
TurnChatReturns(c, i, reply) ==
  /\ i \in 1 .. Len(turns[c])
  /\ turns[c][i].ph = "chat"
  /\ turns' = [turns EXCEPT ![c][i].ph = "send"]
  /\ history' = IF turns[c][i].det
                THEN history
                ELSE [history EXCEPT ![c] =
                       trimHistory(Append(@, Msg("assistant", reply)),
                                   config.maxHistoryMessages)]
  /\ event' = NoEvent
  /\ UNCHANGED <<config, chanState, sessions, executorMode, finalizing,
                 processingChannels, fins, promptFiles, runs, nTurns, nFins>>

\* Mutant: the catch block takes the turn's user message back.
TurnChatFailsRollsBack(c, i) ==
  /\ i \in 1 .. Len(turns[c])
  /\ turns[c][i].ph = "chat"
  /\ turns' = [turns EXCEPT ![c][i].ph = "send"]
  /\ history' = IF turns[c][i].det \/ Len(history[c]) <= 1
                THEN history
                ELSE [history EXCEPT ![c] = SubSeq(@, 1, Len(@) - 1)]
  /\ event' = Ev("chat", c, "ProviderError")
  /\ UNCHANGED <<config, chanState, sessions, executorMode, finalizing,
                 processingChannels, fins, promptFiles, runs, nTurns, nFins>>

\* await llm.chat(session.history) throws: the catch block reports it
TurnChatFails(c, i) ==
  /\ i \in 1 .. Len(turns[c])
  /\ turns[c][i].ph = "chat"
  /\ turns' = [turns EXCEPT ![c][i].ph = "send"]
  /\ event' = Ev("chat", c, "ProviderError")
  /\ UNCHANGED <<config, chanState, sessions, history, executorMode, finalizing,
                 processingChannels, fins, promptFiles, runs, nTurns, nFins>>

\* Mutant: the finally block clears the whole set.
TurnEndsClearsAll(c, i) ==
  /\ i \in 1 .. Len(turns[c])
  /\ turns[c][i].ph = "send"
  /\ turns' = [turns EXCEPT ![c] = RemoveAt(@, i)]
  /\ processingChannels' = {}
  /\ event' = NoEvent
  /\ UNCHANGED <<config, chanState, sessions, history, executorMode, finalizing,
                 fins, promptFiles, runs, nTurns, nFins>>

\* Mutant: no finally block; the guard is kept when the turn is over.
TurnEndsKeepsGuard(c, i) ==
  /\ i \in 1 .. Len(turns[c])
  /\ turns[c][i].ph = "send"
  /\ turns' = [turns EXCEPT ![c] = RemoveAt(@, i)]
  /\ event' = NoEvent
  /\ UNCHANGED <<config, chanState, sessions, history, executorMode, finalizing,
                 processingChannels, fins, promptFiles, runs, nTurns, nFins>>

\* the last await of the turn (sendLongMessage, or channel.send in the catch
\* block) settles either way: finally, processingChannels.delete(channel.id)
TurnEnds(c, i) ==
  /\ i \in 1 .. Len(turns[c])
  /\ turns[c][i].ph = "send"
  /\ turns' = [turns EXCEPT ![c] = RemoveAt(@, i)]
  /\ processingChannels' = processingChannels \ {c}
  /\ event' = NoEvent
  /\ UNCHANGED <<config, chanState, sessions, history, executorMode, finalizing,
                 fins, promptFiles, runs, nTurns, nFins>>

(***************************************************************************)
(* Executor router and launch (executor.ts)                                *)
(***************************************************************************)
availableExecutors(cfg) ==
  (IF cfg.codex THEN <<"codex">> ELSE <<>>) \o
  (IF cfg.claude THEN <<"claude">> ELSE <<>>)

Includes(s, x) == \E i \in 1 .. Len(s) : s[i] = x

\* Mutant: a fixed mode returns its agent without looking at the templates.
selectExecutorNoCheck(mode, cfg) ==
  IF mode \in {"codex", "claude"}
  THEN [kind |-> "selected", executor |-> mode, reason |-> "fixed"]
  ELSE IF Len(availableExecutors(cfg)) = 1
  THEN [kind |-> "selected", executor |-> availableExecutors(cfg)[1], reason |-> "only"]
  ELSE [kind |-> "classify", executor |-> "none", reason |-> "none"]

\* Mutant: a fixed mode is honoured only when the other agent is missing;
\* with both templates the router classifies.
selectExecutorIgnoresFixed(mode, cfg) ==
  IF Len(availableExecutors(cfg)) = 0
  THEN [kind |-> "error", executor |-> "none", reason |-> "none"]
  ELSE IF Len(availableExecutors(cfg)) = 2
  THEN [kind |-> "classify", executor |-> "none", reason |-> "none"]
  ELSE IF mode \in {"codex", "claude"}
  THEN IF Includes(availableExecutors(cfg), mode)
       THEN [kind |-> "selected", executor |-> mode, reason |-> "fixed"]
       ELSE [kind |-> "error", executor |-> "none", reason |-> "none"]
  ELSE [kind |-> "selected", executor |-> availableExecutors(cfg)[1], reason |-> "only"]

\* Mutant: auto with one agent available falls back to codex.
selectExecutorOnlyCodex(mode, cfg) ==
  IF Len(availableExecutors(cfg)) = 0
  THEN [kind |-> "error", executor |-> "none", reason |-> "none"]
  ELSE IF mode \in {"codex", "claude"}
  THEN IF Includes(availableExecutors(cfg), mode)
       THEN [kind |-> "selected", executor |-> mode, reason |-> "fixed"]
       ELSE [kind |-> "error", executor |-> "none", reason |-> "none"]
  ELSE IF Len(availableExecutors(cfg)) = 1
  THEN [kind |-> "selected", executor |-> "codex", reason |-> "only"]
  ELSE [kind |-> "classify", executor |-> "none", reason |-> "none"]

\* Mutant: auto mode asks the Chat Client even when one agent alone has a
\* template.
selectExecutorAlwaysClassifies(mode, cfg) ==
  IF Len(availableExecutors(cfg)) = 0
  THEN [kind |-> "error", executor |-> "none", reason |-> "none"]
  ELSE IF mode \in {"codex", "claude"}
  THEN IF Includes(availableExecutors(cfg), mode)
       THEN [kind |-> "selected", executor |-> mode, reason |-> "fixed"]
       ELSE [kind |-> "error", executor |-> "none", reason |-> "none"]
  ELSE [kind |-> "classify", executor |-> "none", reason |-> "none"]

\* selectExecutor up to its classification call: an error, the agent selected
\* without a call (with the reason given), or the need to classify
selectExecutor(mode, cfg) ==
  LET available == availableExecutors(cfg) IN
  IF Len(available) = 0
  THEN [kind |-> "error", executor |-> "none", reason |-> "none"]
  ELSE IF mode = "codex"
  THEN IF Includes(available, "codex")
       THEN [kind |-> "selected", executor |-> "codex", reason |-> "fixed"]
       ELSE [kind |-> "error", executor |-> "none", reason |-> "none"]
  ELSE IF mode = "claude"
  THEN IF Includes(available, "claude")
       THEN [kind |-> "selected", executor |-> "claude", reason |-> "fixed"]
       ELSE [kind |-> "error", executor |-> "none", reason |-> "none"]
  ELSE IF Len(available) = 1
  THEN [kind |-> "selected", executor |-> available[1], reason |-> "only"]
  ELSE [kind |-> "classify", executor |-> "none", reason |-> "none"]

\* String.prototype.toLowerCase, word by word
ToLowerCase(w) == IF w = "Claude" THEN "claude" ELSE IF w = "Codex" THEN "codex" ELSE w
\* String.prototype.trim: leading and trailing blanks removed
RECURSIVE TrimStart(_)
TrimStart(s) == IF s # <<>> /\ Head(s) = " " THEN TrimStart(Tail(s)) ELSE s
RECURSIVE TrimEnd(_)
TrimEnd(s) == IF s # <<>> /\ s[Len(s)] = " " THEN TrimEnd(SubSeq(s, 1, Len(s) - 1)) ELSE s

\* Mutant: the response is compared without toLowerCase().
classifiedExecutorCaseSensitive(response) ==
  IF Includes(TrimEnd(TrimStart(response)), "claude") THEN "claude" ELSE "codex"

\* Mutant: the catch block rethrows.
classifyFallbackThrows == [kind |-> "error", executor |-> "none", reason |-> "none"]

\* catch { return { executor: "codex", reason: fallback } }
classifyFallback == [kind |-> "selected", executor |-> "codex", reason |-> "fallback"]

\* the agent chosen from the classification response
classifiedExecutor(response) ==
  LET normalized == TrimEnd(TrimStart([i \in 1 .. Len(response) |-> ToLowerCase(response[i])]))
  IN IF Includes(normalized, "claude") THEN "claude" ELSE "codex"

\* commandTemplateFor: TRUE when the agent's template is configured
commandTemplateFor(executor, cfg) ==
  IF executor = "codex" THEN cfg.codex ELSE cfg.claude

(***************************************************************************)
(* Finalize and run                                                        *)
(***************************************************************************)
\* a finalize cycle in flight: its position, whether its session object has
\* left the registry (and then the mode that object holds), the prompt it
\* got, and the mode the session had when the request was accepted
FinOp(asked) ==
  [ph |-> "prompt", det |-> FALSE, mode |-> "live", prompt |-> "none",
   asked |-> asked]

\* Mutant: no check of session.finalizing.
finalizeAndRunNoGuard(c, u) ==
  IF u # Owner
  THEN /\ ensureSession(c)
       /\ event' = Ev("finalize", c, "NotOwner")
       /\ UNCHANGED <<fins, nFins>>
  ELSE IF formatHistoryForFinalizer(EnsuredHistory(c)) = <<>>
  THEN /\ ensureSession(c)
       /\ event' = Ev("finalize", c, "EmptyHistory")
       /\ UNCHANGED <<fins, nFins>>
  ELSE /\ sessions' = [sessions EXCEPT ![c] = TRUE]
       /\ history' = [history EXCEPT ![c] = EnsuredHistory(c)]
       /\ executorMode' = [executorMode EXCEPT ![c] = EnsuredMode(c)]
       /\ finalizing' = [finalizing EXCEPT ![c] = TRUE]
       /\ fins' = [fins EXCEPT ![c] = Append(@, FinOp(EnsuredMode(c)))]
       /\ nFins' = nFins + 1
       /\ event' = Ev("finalize", c, "accepted")

\* finalizeAndRun up to its first await: the owner and guard checks, then the
\* guard is taken and the finalizer call issued; an empty history throws and
\* the finally block releases the guard in the same step
finalizeAndRun(c, u) ==
  IF u # Owner
  THEN /\ ensureSession(c)
       /\ event' = Ev("finalize", c, "NotOwner")
       /\ UNCHANGED <<fins, nFins>>
  ELSE IF EnsuredFinalizing(c)
  THEN /\ ensureSession(c)
       /\ event' = Ev("finalize", c, "AlreadyFinalizing")
       /\ UNCHANGED <<fins, nFins>>
  ELSE IF formatHistoryForFinalizer(EnsuredHistory(c)) = <<>>
  THEN /\ ensureSession(c)
       /\ event' = Ev("finalize", c, "EmptyHistory")
       /\ UNCHANGED <<fins, nFins>>
  ELSE /\ sessions' = [sessions EXCEPT ![c] = TRUE]
       /\ history' = [history EXCEPT ![c] = EnsuredHistory(c)]
       /\ executorMode' = [executorMode EXCEPT ![c] = EnsuredMode(c)]
       /\ finalizing' = [finalizing EXCEPT ![c] = TRUE]
       /\ fins' = [fins EXCEPT ![c] = Append(@, FinOp(EnsuredMode(c)))]
       /\ nFins' = nFins + 1
       /\ event' = Ev("finalize", c, "accepted")

\* the session object's mode as the in-flight cycle reads it
FinMode(c, op) == IF op.det THEN op.mode ELSE executorMode[c]

\* finally { session.finalizing = false } on the cycle's own session object
ReleaseFinalizing(c, op) ==
  finalizing' = IF op.det THEN finalizing ELSE [finalizing EXCEPT ![c] = FALSE]

\* runSelectedExecutor: the Run of the selected agent starts and the handle
\* is returned
StartRun(c, executor, prompt) ==
  runs' = [runs EXCEPT ![c] =
             Append(@, [executor |-> executor, prompt |-> prompt])]

\* Mutant: the file is written without the prompt text.
PromptFileEmpty(p) == <<"\n">>

\* the prompt file: `${prompt}\n`
PromptFile(p) == <<p, "\n">>

\* the finalizer call returns: the prompt file is written, then the router
\* either selects without a call (and the Run starts, unless runCodex throws
\* on its log directory or file: launched = FALSE), fails, or classifies
FinPromptReturns(c, i, p, launched) ==
  /\ i \in 1 .. Len(fins[c])
  /\ fins[c][i].ph = "prompt"
  /\ promptFiles' = [promptFiles EXCEPT ![c] = Append(@, PromptFile(p))]
  /\ LET op == fins[c][i]
         sel == selectExecutor(FinMode(c, op), config)
     IN CASE sel.kind = "error" ->
               /\ fins' = [fins EXCEPT ![c] = RemoveAt(@, i)]
               /\ ReleaseFinalizing(c, op)
               /\ event' = Ev("finalizeEnd", c, "ConfigurationError")
               /\ UNCHANGED runs
          [] sel.kind = "selected" ->
               /\ fins' = [fins EXCEPT ![c] = RemoveAt(@, i)]
               /\ ReleaseFinalizing(c, op)
               /\ IF commandTemplateFor(sel.executor, config) /\ launched
                  THEN /\ StartRun(c, sel.executor, p)
                       /\ event' = Ev("finalizeEnd", c, "started")
                  ELSE /\ UNCHANGED runs
                       /\ event' = Ev("finalizeEnd", c,
                                      IF commandTemplateFor(sel.executor, config)
                                      THEN "LaunchError" ELSE "ConfigurationError")
          [] sel.kind = "classify" ->
               /\ fins' = [fins EXCEPT ![c][i].ph = "route", ![c][i].prompt = p]
               /\ event' = Ev("finalizePrompt", c, "classify")
               /\ UNCHANGED <<finalizing, runs>>
  /\ UNCHANGED <<config, chanState, sessions, history, executorMode,
                 processingChannels, turns, nTurns, nFins>>

\* Mutant: no finally block; a failed finalizer call leaves the guard set.
FinPromptFailsKeepsGuard(c, i) ==
  /\ i \in 1 .. Len(fins[c])
  /\ fins[c][i].ph = "prompt"
  /\ fins' = [fins EXCEPT ![c] = RemoveAt(@, i)]
  /\ event' = Ev("finalizeEnd", c, "ProviderError")
  /\ UNCHANGED <<config, chanState, sessions, history, executorMode, finalizing,
                 processingChannels, turns, promptFiles, runs, nTurns, nFins>>

\* the finalizer call throws: the guard is released, nothing else happens
FinPromptFails(c, i) ==
  /\ i \in 1 .. Len(fins[c])
  /\ fins[c][i].ph = "prompt"
  /\ fins' = [fins EXCEPT ![c] = RemoveAt(@, i)]
  /\ ReleaseFinalizing(c, fins[c][i])
  /\ event' = Ev("finalizeEnd", c, "ProviderError")
  /\ UNCHANGED <<config, chanState, sessions, history, executorMode,
                 processingChannels, turns, promptFiles, runs, nTurns, nFins>>

\* the classification call settles (ok: with a response; otherwise it threw
\* and the router falls back to codex): the Run of the chosen agent starts,
\* unless runCodex throws
FinRouteSettles(c, i, ok, response, launched) ==
  /\ i \in 1 .. Len(fins[c])
  /\ fins[c][i].ph = "route"
  /\ LET op == fins[c][i]
         executor == IF ok THEN classifiedExecutor(response) ELSE classifyFallback.executor
     IN /\ fins' = [fins EXCEPT ![c] = RemoveAt(@, i)]
        /\ ReleaseFinalizing(c, op)
        /\ IF commandTemplateFor(executor, config) /\ launched
           THEN /\ StartRun(c, executor, op.prompt)
                /\ event' = Ev("finalizeEnd", c, "started")
           ELSE /\ UNCHANGED runs
                /\ event' = Ev("finalizeEnd", c,
                               IF commandTemplateFor(executor, config)
                               THEN "LaunchError" ELSE "ConfigurationError")
  /\ UNCHANGED <<config, chanState, sessions, history, executorMode,
                 processingChannels, turns, promptFiles, nTurns, nFins>>

\* sessions.delete(channel.id): the operations in flight keep the object they
\* started with, which the registry no longer holds
Detach(c) ==
  /\ turns' = [turns EXCEPT ![c] =
       [i \in 1 .. Len(turns[c]) |-> [turns[c][i] EXCEPT !.det = TRUE]]]
  /\ fins' = [fins EXCEPT ![c] =
       [i \in 1 .. Len(fins[c]) |->
          [fins[c][i] EXCEPT !.det = TRUE, !.mode = FinMode(c, fins[c][i])]]]
  /\ sessions' = [sessions EXCEPT ![c] = FALSE]
  /\ history' = [history EXCEPT ![c] = <<>>]
  /\ executorMode' = [executorMode EXCEPT ![c] = "none"]
  /\ finalizing' = [finalizing EXCEPT ![c] = FALSE]

\* client.on("interactionCreate"): the slash commands and the buttons of a
\* session channel
interactionCreate(c, u, cmd, mode) ==
  /\ ChannelExists(c)
  /\ IF u # Owner
     THEN /\ ensureSession(c)
          /\ event' = Ev("interaction", c, "NotOwner")
          /\ UNCHANGED <<chanState, turns, fins, nFins>>
     ELSE CASE cmd = "reset" ->
                 /\ sessions' = [sessions EXCEPT ![c] = TRUE]
                 /\ history' = [history EXCEPT ![c] = <<SysMsg>>]
                 /\ executorMode' = [executorMode EXCEPT ![c] = EnsuredMode(c)]
                 /\ finalizing' = [finalizing EXCEPT ![c] = EnsuredFinalizing(c)]
                 /\ event' = NoEvent
                 /\ UNCHANGED <<chanState, turns, fins, nFins>>
            [] cmd = "engine" ->
                 /\ sessions' = [sessions EXCEPT ![c] = TRUE]
                 /\ history' = [history EXCEPT ![c] = EnsuredHistory(c)]
                 /\ executorMode' = [executorMode EXCEPT ![c] =
                      IF mode = "show" THEN EnsuredMode(c) ELSE mode]
                 /\ finalizing' = [finalizing EXCEPT ![c] = EnsuredFinalizing(c)]
                 /\ event' = NoEvent
                 /\ UNCHANGED <<chanState, turns, fins, nFins>>
            [] cmd = "finalize" ->
                 /\ finalizeAndRun(c, u)
                 /\ UNCHANGED <<chanState, turns>>
            [] cmd = "close" ->
                 /\ Detach(c)
                 /\ chanState' = [chanState EXCEPT ![c] = "closing"]
                 /\ event' = NoEvent
                 /\ UNCHANGED nFins
  /\ UNCHANGED <<config, processingChannels, promptFiles, runs, nTurns>>

\* client.on("channelDelete")
channelDelete(c) ==
  /\ ChannelExists(c)
  /\ Detach(c)
  /\ chanState' = [chanState EXCEPT ![c] = "deleted"]
  /\ processingChannels' = processingChannels \ {c}
  /\ event' = NoEvent
  /\ UNCHANGED <<config, promptFiles, runs, nTurns, nFins>>

(***************************************************************************)
(* Spec: finalize cycles (and the chat turns that fill the history) on one *)
(* channel, under every valid configuration                                *)
(***************************************************************************)
Init ==
  /\ TrimIdle
  /\ RunIdle
  /\ FlushIdle
  /\ RouteIdle
  /\ ProbeIdle
  /\ config \in ValidConfigs
  /\ SessIdle

FinalizeChannels == {"c1"}

Next ==
  \/ \E c \in FinalizeChannels : createSessionChannel(c) /\ UNCHANGED <<trimVars, runVars, flushVars, routeVars, probeVars>>
  \/ \E c \in FinalizeChannels, t \in UserTexts :
       messageCreate(c, Owner, "text", t) /\ nTurns' <= MaxFinalizeTurns
         /\ UNCHANGED <<trimVars, runVars, flushVars, routeVars, probeVars>>
  \/ \E c \in FinalizeChannels, i \in 1 .. MaxTurns, ok \in BOOLEAN :
       TurnTypingSettles(c, i, ok) /\ UNCHANGED <<trimVars, runVars, flushVars, routeVars, probeVars>>
  \/ \E c \in FinalizeChannels, i \in 1 .. MaxTurns, r \in Replies :
       TurnChatReturns(c, i, r) /\ UNCHANGED <<trimVars, runVars, flushVars, routeVars, probeVars>>
  \/ \E c \in FinalizeChannels, i \in 1 .. MaxTurns :
       TurnChatFails(c, i) /\ UNCHANGED <<trimVars, runVars, flushVars, routeVars, probeVars>>
  \/ \E c \in FinalizeChannels, i \in 1 .. MaxTurns :
       TurnEnds(c, i) /\ UNCHANGED <<trimVars, runVars, flushVars, routeVars, probeVars>>
  \/ \E c \in FinalizeChannels, cmd \in {"reset", "finalize", "close"} :
       interactionCreate(c, Owner, cmd, "show") /\ nFins' <= MaxFinalizes
         /\ UNCHANGED <<trimVars, runVars, flushVars, routeVars, probeVars>>
  \/ \E c \in FinalizeChannels, m \in Modes :
       interactionCreate(c, Owner, "engine", m) /\ UNCHANGED <<trimVars, runVars, flushVars, routeVars, probeVars>>
  \/ \E c \in FinalizeChannels, i \in 1 .. MaxFinalizes, p \in PromptTexts :
       FinPromptReturns(c, i, p, TRUE) /\ UNCHANGED <<trimVars, runVars, flushVars, routeVars, probeVars>>
  \/ \E c \in FinalizeChannels, i \in 1 .. MaxFinalizes :
       FinPromptFails(c, i) /\ UNCHANGED <<trimVars, runVars, flushVars, routeVars, probeVars>>
  \/ \E c \in FinalizeChannels, i \in 1 .. MaxFinalizes, ok \in BOOLEAN,
        r \in ClassifyResponses :
       FinRouteSettles(c, i, ok, r, TRUE) /\ UNCHANGED <<trimVars, runVars, flushVars, routeVars, probeVars>>
  \/ \E c \in FinalizeChannels : channelDelete(c) /\ UNCHANGED <<trimVars, runVars, flushVars, routeVars, probeVars>>

Spec == Init /\ [][Next]_vars

(***************************************************************************)
(* SpecChat: chat turns, resets and closes on both channels                *)
(***************************************************************************)
\* EXECUTOR_MODE defaults to codex; a chat turn reads no template
ChatConfig == [codex |-> TRUE, claude |-> TRUE, executorMode |-> "codex",
               maxHistoryMessages |-> MinHistoryMessages]

InitChat ==
  /\ TrimIdle
  /\ RunIdle
  /\ FlushIdle
  /\ RouteIdle
  /\ ProbeIdle
  /\ config = ChatConfig
  /\ SessIdle

NextChat ==
  \/ \E c \in Channels : createSessionChannel(c) /\ UNCHANGED <<trimVars, runVars, flushVars, routeVars, probeVars>>
  \/ \E c \in Channels, t \in UserTexts :
       messageCreate(c, Owner, "text", t) /\ nTurns' <= MaxTurns /\ UNCHANGED <<trimVars, runVars, flushVars, routeVars, probeVars>>
  \/ \E c \in Channels, i \in 1 .. MaxTurns, ok \in BOOLEAN :
       TurnTypingSettles(c, i, ok) /\ UNCHANGED <<trimVars, runVars, flushVars, routeVars, probeVars>>
  \/ \E c \in Channels, i \in 1 .. MaxTurns, r \in Replies :
       TurnChatReturns(c, i, r) /\ UNCHANGED <<trimVars, runVars, flushVars, routeVars, probeVars>>
  \/ \E c \in Channels, i \in 1 .. MaxTurns :
       TurnChatFails(c, i) /\ UNCHANGED <<trimVars, runVars, flushVars, routeVars, probeVars>>
  \/ \E c \in Channels, i \in 1 .. MaxTurns :
       TurnEnds(c, i) /\ UNCHANGED <<trimVars, runVars, flushVars, routeVars, probeVars>>
  \/ \E c \in Channels, cmd \in {"reset", "close"} :
       interactionCreate(c, Owner, cmd, "show") /\ UNCHANGED <<trimVars, runVars, flushVars, routeVars, probeVars>>
  \/ \E c \in Channels : channelDelete(c) /\ UNCHANGED <<trimVars, runVars, flushVars, routeVars, probeVars>>

SpecChat == InitChat /\ [][NextChat]_vars

(***************************************************************************)
(* SpecPair: two sessions side by side, every operation on each            *)
(***************************************************************************)
\* SpecPair: chat turns and finalize requests accepted over both channels
MaxPairRequests == 3
\* SpecPair: the mode the engine command asks for
PairModes == {"claude"}

NextPair ==
  \/ \E c \in Channels : createSessionChannel(c) /\ UNCHANGED <<trimVars, runVars, flushVars, routeVars, probeVars>>
  \/ \E c \in Channels, t \in UserTexts :
       messageCreate(c, Owner, "text", t) /\ nTurns' + nFins' <= MaxPairRequests
         /\ UNCHANGED <<trimVars, runVars, flushVars, routeVars, probeVars>>
  \/ \E c \in Channels, i \in 1 .. MaxPairRequests :
       TurnTypingSettles(c, i, TRUE) /\ UNCHANGED <<trimVars, runVars, flushVars, routeVars, probeVars>>
  \/ \E c \in Channels, i \in 1 .. MaxPairRequests, r \in Replies :
       TurnChatReturns(c, i, r) /\ UNCHANGED <<trimVars, runVars, flushVars, routeVars, probeVars>>
  \/ \E c \in Channels, i \in 1 .. MaxPairRequests :
       TurnEnds(c, i) /\ UNCHANGED <<trimVars, runVars, flushVars, routeVars, probeVars>>
  \/ \E c \in Channels, cmd \in {"reset", "finalize", "close"} :
       interactionCreate(c, Owner, cmd, "show") /\ nTurns' + nFins' <= MaxPairRequests
         /\ UNCHANGED <<trimVars, runVars, flushVars, routeVars, probeVars>>
  \/ \E c \in Channels, m \in PairModes :
       interactionCreate(c, Owner, "engine", m) /\ UNCHANGED <<trimVars, runVars, flushVars, routeVars, probeVars>>
  \/ \E c \in Channels, i \in 1 .. MaxPairRequests :
       FinPromptReturns(c, i, "p1", TRUE) /\ UNCHANGED <<trimVars, runVars, flushVars, routeVars, probeVars>>

SpecPair == InitChat /\ [][NextPair]_vars

(***************************************************************************)
(* SpecHistory: a long conversation on one channel                         *)
(***************************************************************************)
NextHistory ==
  \/ createSessionChannel("c1") /\ UNCHANGED <<trimVars, runVars, flushVars, routeVars, probeVars>>
  \/ \E t \in UserTexts :
       messageCreate("c1", Owner, "text", t) /\ nTurns' <= MaxHistoryTurns
         /\ UNCHANGED <<trimVars, runVars, flushVars, routeVars, probeVars>>
  \/ \E ok \in BOOLEAN : TurnTypingSettles("c1", 1, ok) /\ UNCHANGED <<trimVars, runVars, flushVars, routeVars, probeVars>>
  \/ \E r \in Replies : TurnChatReturns("c1", 1, r) /\ UNCHANGED <<trimVars, runVars, flushVars, routeVars, probeVars>>
  \/ TurnChatFails("c1", 1) /\ UNCHANGED <<trimVars, runVars, flushVars, routeVars, probeVars>>
  \/ TurnEnds("c1", 1) /\ UNCHANGED <<trimVars, runVars, flushVars, routeVars, probeVars>>
  \/ \E cmd \in {"reset", "close"} :
       interactionCreate("c1", Owner, cmd, "show") /\ UNCHANGED <<trimVars, runVars, flushVars, routeVars, probeVars>>
  \/ channelDelete("c1") /\ UNCHANGED <<trimVars, runVars, flushVars, routeVars, probeVars>>

SpecHistory == InitChat /\ [][NextHistory]_vars

(***************************************************************************)
(* SpecCycle: finalize cycles on one channel with every way they end       *)
(***************************************************************************)
\* SpecCycle: chat turns and finalize requests accepted
MaxCycleRequests == 4
\* SpecCycle: what the classification call answers
CycleResponses == {<<"claude">>, <<"codex">>}

NextCycle ==
  \/ createSessionChannel("c1") /\ UNCHANGED <<trimVars, runVars, flushVars, routeVars, probeVars>>
  \/ \E t \in UserTexts :
       messageCreate("c1", Owner, "text", t) /\ nTurns' + nFins' <= MaxCycleRequests
         /\ UNCHANGED <<trimVars, runVars, flushVars, routeVars, probeVars>>
  \/ TurnTypingSettles("c1", 1, TRUE) /\ UNCHANGED <<trimVars, runVars, flushVars, routeVars, probeVars>>
  \/ \E r \in Replies : TurnChatReturns("c1", 1, r) /\ UNCHANGED <<trimVars, runVars, flushVars, routeVars, probeVars>>
  \/ TurnEnds("c1", 1) /\ UNCHANGED <<trimVars, runVars, flushVars, routeVars, probeVars>>
  \/ \E cmd \in {"reset", "finalize", "close"} :
       interactionCreate("c1", Owner, cmd, "show") /\ nTurns' + nFins' <= MaxCycleRequests
         /\ UNCHANGED <<trimVars, runVars, flushVars, routeVars, probeVars>>
  \/ \E i \in 1 .. MaxCycleRequests, p \in PromptTexts, launched \in BOOLEAN :
       FinPromptReturns("c1", i, p, launched) /\ UNCHANGED <<trimVars, runVars, flushVars, routeVars, probeVars>>
  \/ \E i \in 1 .. MaxCycleRequests :
       FinPromptFails("c1", i) /\ UNCHANGED <<trimVars, runVars, flushVars, routeVars, probeVars>>
  \/ \E i \in 1 .. MaxCycleRequests, ok \in BOOLEAN, r \in CycleResponses,
        launched \in BOOLEAN :
       FinRouteSettles("c1", i, ok, r, launched) /\ UNCHANGED <<trimVars, runVars, flushVars, routeVars, probeVars>>
  \/ channelDelete("c1") /\ UNCHANGED <<trimVars, runVars, flushVars, routeVars, probeVars>>

SpecCycle == Init /\ [][NextCycle]_vars

(***************************************************************************)
(* SpecOwner: one session channel with its owner and another guild member  *)
(* both writing, pressing buttons and issuing slash commands               *)
(***************************************************************************)
\* SpecOwner: chat turns and finalize requests accepted
MaxOwnerRequests == 3
\* what the other member writes, and the mode the other member asks for
OtherText == 3
OtherMode == "claude"
\* the mode the owner asks for
OwnerModes == {"auto"}

NextOwner ==
  \/ createSessionChannel("c1") /\ UNCHANGED <<trimVars, runVars, flushVars, routeVars, probeVars>>
  \/ \E t \in UserTexts :
       messageCreate("c1", Owner, "text", t) /\ nTurns' + nFins' <= MaxOwnerRequests
         /\ UNCHANGED <<trimVars, runVars, flushVars, routeVars, probeVars>>
  \/ \E u \in Users \ {Owner} :
       messageCreate("c1", u, "text", OtherText) /\ nTurns' + nFins' <= MaxOwnerRequests
         /\ UNCHANGED <<trimVars, runVars, flushVars, routeVars, probeVars>>
  \/ TurnTypingSettles("c1", 1, TRUE) /\ UNCHANGED <<trimVars, runVars, flushVars, routeVars, probeVars>>
  \/ \E r \in Replies : TurnChatReturns("c1", 1, r) /\ UNCHANGED <<trimVars, runVars, flushVars, routeVars, probeVars>>
  \/ TurnEnds("c1", 1) /\ UNCHANGED <<trimVars, runVars, flushVars, routeVars, probeVars>>
  \/ \E cmd \in {"reset", "finalize", "close"} :
       interactionCreate("c1", Owner, cmd, "show") /\ nTurns' + nFins' <= MaxOwnerRequests
         /\ UNCHANGED <<trimVars, runVars, flushVars, routeVars, probeVars>>
  \/ \E m \in OwnerModes :
       interactionCreate("c1", Owner, "engine", m) /\ UNCHANGED <<trimVars, runVars, flushVars, routeVars, probeVars>>
  \/ \E u \in Users \ {Owner}, cmd \in {"reset", "engine", "finalize", "close"} :
       interactionCreate("c1", u, cmd, OtherMode) /\ nTurns' + nFins' <= MaxOwnerRequests
         /\ UNCHANGED <<trimVars, runVars, flushVars, routeVars, probeVars>>
  \/ \E i \in 1 .. MaxOwnerRequests, p \in PromptTexts :
       FinPromptReturns("c1", i, p, TRUE) /\ UNCHANGED <<trimVars, runVars, flushVars, routeVars, probeVars>>
  \/ \E i \in 1 .. MaxOwnerRequests, r \in CycleResponses :
       FinRouteSettles("c1", i, TRUE, r, TRUE) /\ UNCHANGED <<trimVars, runVars, flushVars, routeVars, probeVars>>
  \/ channelDelete("c1") /\ UNCHANGED <<trimVars, runVars, flushVars, routeVars, probeVars>>

SpecOwner == InitChat /\ [][NextOwner]_vars

\* C38: nothing another member sends changes the session.  What the other
\* member writes is in no history and the mode the other member asks for is
\* never the session's mode; the handler that answers NotOwner leaves the
\* channel, the turns, the finalize cycles, the prompt files and the Runs as
\* they are, and the fields of a registered session unchanged (for a channel
\* with no registered session it registers a fresh one from the topic).
C38_OwnerOnly ==
  /\ [](/\ \A i \in 1 .. Len(history["c1"]) : history["c1"][i].content # OtherText
        /\ executorMode["c1"] # OtherMode)
  /\ [][(event'.res = "NotOwner" /\ event'.chan = "c1") =>
          /\ UNCHANGED <<chanState, turns, fins, promptFiles, runs,
                         processingChannels, nTurns, nFins>>
          /\ sessions["c1"] =>
               UNCHANGED <<sessions, history, executorMode, finalizing>>
          /\ ~sessions["c1"] =>
               /\ history'["c1"] = <<SysMsg>>
               /\ executorMode'["c1"] = config.executorMode
               /\ ~finalizing'["c1"]]_vars

\* the other member's finalize request has just been refused on a session
\* that holds a conversation and is in the middle of a turn
C38_Witness ==
  /\ event = Ev("interaction", "c1", "NotOwner")
  /\ sessions["c1"]
  /\ Len(history["c1"]) = 4
  /\ "c1" \in processingChannels
  /\ fins["c1"] = <<>>

(***************************************************************************)
(* SpecLive: SpecHistory with every await of a turn settling eventually    *)
(***************************************************************************)
\* an await of the turn in flight on channel c settles: sendTyping, the
\* Chat Client call (with a reply or an error), the final send
TurnProgress(c) ==
  /\ \/ \E ok \in BOOLEAN : TurnTypingSettles(c, 1, ok)
     \/ \E r \in Replies : TurnChatReturns(c, 1, r)
     \/ TurnChatFails(c, 1)
     \/ TurnEnds(c, 1)
  /\ UNCHANGED <<trimVars, runVars, flushVars, routeVars, probeVars>>

SpecLive == InitChat /\ [][NextHistory]_vars /\ WF_vars(TurnProgress("c1"))

(***************************************************************************)
(* Claims on the session engine                                            *)
(***************************************************************************)
\* the step taken is a messageCreate on channel c
StepIsMessage(c) == event'.op = "message" /\ event'.chan = c
\* the step taken is a finalize request on channel c
StepIsFinalize(c) == event'.op = "finalize" /\ event'.chan = c

C1_AtMostOneTurn ==
  \A c \in Channels :
    /\ Len(turns[c]) <= 1
    /\ Len(turns[c]) = 1 => c \in processingChannels \/ chanState[c] = "deleted"

C1_BusyRejects ==
  \A c \in Channels :
    (StepIsMessage(c) /\ c \in processingChannels) =>
      /\ event'.res = "Busy"
      /\ turns' = turns
      /\ processingChannels' = processingChannels
      /\ nTurns' = nTurns
      /\ history'[c] = EnsuredHistory(c)

\* C1: a chat message that arrives while the channel's busy guard is held is
\* rejected with Busy: it starts no turn (so issues no Chat Client call), is
\* not appended to history and leaves nothing behind that a later step could
\* pick up; hence every channel has at most one chat turn, and so at most
\* one ordinary-turn Chat Client call, in flight at any instant.
C1_SingleFlight == [] C1_AtMostOneTurn /\ [][C1_BusyRejects]_vars

\* a message was rejected as Busy while the turn's Chat Client call was in flight
C1_Witness ==
  \E c \in Channels :
    /\ event = Ev("message", c, "Busy")
    /\ c \in processingChannels
    /\ Len(turns[c]) = 1
    /\ turns[c][1].ph = "chat"

\* the finalize cycles in flight on the session object the registry holds
AttachedFins(c) == {i \in 1 .. Len(fins[c]) : ~fins[c][i].det}

C2_AtMostOneCycle ==
  \A c \in Channels :
    /\ Cardinality(AttachedFins(c)) <= 1
    /\ AttachedFins(c) # {} => sessions[c] /\ finalizing[c]

C2_FinalizingRejects ==
  \A c \in Channels :
    (StepIsFinalize(c) /\ EnsuredFinalizing(c)) =>
      /\ event'.res = "AlreadyFinalizing"
      /\ fins' = fins
      /\ promptFiles' = promptFiles
      /\ runs' = runs
      /\ nFins' = nFins
      /\ finalizing'[c]

\* C2: at most one finalize cycle holds a session's finalizing guard at any
\* instant; a finalize request that finds the guard set is rejected with
\* AlreadyFinalizing and starts no cycle: no Chat Client call, no prompt file,
\* no Run.  The check and the set of the guard are one step.
C2_SingleFinalize == [] C2_AtMostOneCycle /\ [][C2_FinalizingRejects]_vars

\* a finalize request was rejected while the cycle holding the guard awaited
\* its finalizer call
C2_Witness ==
  \E c \in Channels :
    /\ event = Ev("finalize", c, "AlreadyFinalizing")
    /\ finalizing[c]
    /\ \E i \in AttachedFins(c) : fins[c][i].ph = "prompt"

\* C9: the history of every registered session is non-empty, starts with the
\* system message and holds no system message anywhere else, whatever turns,
\* trims and resets came before.
C9_SystemFirst ==
  \A c \in Channels :
    sessions[c] =>
      /\ Len(history[c]) >= 1
      /\ history[c][1].role = "system"
      /\ \A i \in 2 .. Len(history[c]) : history[c][i].role # "system"

\* a trim has dropped the oldest messages: the history is full and the first
\* message after the system message is a reply
C9_Witness ==
  /\ sessions["c1"]
  /\ Len(history["c1"]) = config.maxHistoryMessages + 1
  /\ history["c1"][2].role = "assistant"

\* C16: a finalize request that passes the owner and finalizing guards on a
\* session whose history holds only the system message fails with
\* EmptyHistory: no finalizer call is issued, no prompt file written, no Run
\* started, and the finalizing guard is free again after the step.
C16_EmptyHistory ==
  [][\A c \in Channels :
       (StepIsFinalize(c) /\ ~EnsuredFinalizing(c) /\ EnsuredHistory(c) = <<SysMsg>>) =>
         /\ event'.res = "EmptyHistory"
         /\ fins' = fins
         /\ promptFiles' = promptFiles
         /\ runs' = runs
         /\ nFins' = nFins
         /\ ~finalizing'[c]
         /\ history'[c] = <<SysMsg>>]_vars

\* a finalize request failed with EmptyHistory and the guard is free
C16_Witness ==
  \E c \in Channels :
    /\ event = Ev("finalize", c, "EmptyHistory")
    /\ sessions[c]
    /\ history[c] = <<SysMsg>>
    /\ ~finalizing[c]
    /\ fins[c] = <<>>
    /\ promptFiles[c] = <<>>

\* the finalize cycles of channel c that await their finalizer call
PromptOps(c) == {i \in 1 .. Len(fins[c]) : fins[c][i].ph = "prompt"}
\* the finalize cycles of channel c that await the classification call
RouteOps(c) == {i \in 1 .. Len(fins[c]) : fins[c][i].ph = "route"}

\* the step taken is the successful return of a finalizer call on channel c
StepIsPromptReturn(c) ==
  /\ event'.chan = c
  /\ event'.op \in {"finalizePrompt", "finalizeEnd"}
  /\ event'.res # "ProviderError"
  /\ Cardinality(PromptOps(c)') = Cardinality(PromptOps(c)) - 1

\* the step taken starts a Run on channel c
StepStartsRun(c) == Len(runs'[c]) = Len(runs[c]) + 1

\* One file per successful finalizer call, written in the step of its
\* return, with the content file(p) for the returned text p; the Run of the
\* cycle gets p, in that step or after the classification.
PromptFileWritten(c, file(_)) ==
  /\ StepIsPromptReturn(c) =>
       \E p \in PromptTexts :
         /\ promptFiles'[c] = Append(promptFiles[c], file(p))
         /\ StepStartsRun(c) => runs'[c][Len(runs'[c])].prompt = p
         /\ Cardinality(RouteOps(c)') > Cardinality(RouteOps(c)) =>
              \E i \in RouteOps(c)' : fins'[c][i].prompt = p
  /\ ~StepIsPromptReturn(c) =>
       /\ promptFiles'[c] = promptFiles[c]
       /\ StepStartsRun(c) =>
            \E i \in RouteOps(c) :
              /\ fins'[c] = RemoveAt(fins[c], i)
              /\ runs'[c][Len(runs'[c])].prompt = fins[c][i].prompt

TextOnly(p) == <<p>>
TextAndNewline(p) == <<p, "\n">>

C18_NoSideEffect ==
  [][\A c \in Channels :
       /\ (StepIsFinalize(c) /\ event'.res \in {"NotOwner", "AlreadyFinalizing"}) =>
            /\ fins' = fins
            /\ promptFiles' = promptFiles
            /\ runs' = runs
            /\ history'[c] = EnsuredHistory(c)
       /\ (event'.chan = c /\ event'.op = "finalizeEnd"
             /\ event'.res = "ConfigurationError") =>
            /\ Cardinality(PromptOps(c)') = Cardinality(PromptOps(c))
            /\ promptFiles'[c] = promptFiles[c]
            /\ runs'[c] = runs[c]
            /\ history'[c] = history[c]]_vars

\* C35: when every await of a turn settles (the Chat Client call with a
\* reply or with an error), the busy guard taken by the turn is eventually
\* released, and a turn request that arrives with the guard released is
\* accepted.
C35_BusyReleased ==
  /\ ("c1" \in processingChannels) ~> ("c1" \notin processingChannels)
  /\ [][(/\ event'.op = "message" /\ event'.chan = "c1"
         /\ event'.res \in {"accepted", "Busy"}
         /\ "c1" \notin processingChannels)
        => (/\ event'.res = "accepted"
            /\ "c1" \in processingChannels'
            /\ Len(turns'["c1"]) = Len(turns["c1"]) + 1)]_vars

\* a turn whose Chat Client call failed is over, the guard is released and a
\* later message has been accepted
C35_Witness ==
  /\ event = Ev("message", "c1", "accepted")
  /\ nTurns = 2
  /\ history["c1"] = <<SysMsg, Msg("user", 1), Msg("user", 1)>>
  /\ "c1" \in processingChannels

\* C37: when the Chat Client call of a turn fails the history is left as it
\* is: the turn's user message stays (unless a reset emptied the history
\* meanwhile) and no assistant message is appended; the next accepted turn
\* appends its user message after it, two user messages in a row.
C37_NoRollback ==
  [][/\ event' = Ev("chat", "c1", "ProviderError") =>
          /\ history' = history
          /\ (Len(turns["c1"]) = 1 /\ ~turns["c1"][1].det) =>
               \/ history["c1"] = <<SysMsg>>
               \/ history["c1"][Len(history["c1"])].role = "user"
     /\ (/\ event' = Ev("message", "c1", "accepted")
         /\ sessions["c1"]
         /\ history["c1"][Len(history["c1"])].role = "user") =>
          LET n == Len(history'["c1"])
          IN /\ n = IF Len(history["c1"]) <= config.maxHistoryMessages
                    THEN Len(history["c1"]) + 1
                    ELSE config.maxHistoryMessages + 1
             /\ history'["c1"][n].role = "user"
             /\ history'["c1"][n - 1] = history["c1"][Len(history["c1"])]]_vars

\* the first turn's call failed, the second turn's message followed the
\* first one's and was answered
C37_Witness ==
  history["c1"] = <<SysMsg, Msg("user", 1), Msg("user", 1), Msg("assistant", 2)>>

\* C39: a reset issued while a chat turn of the session is in flight is
\* final: from the reset until that turn is over, the history stays the
\* single system message.  (While the turn awaits, a history of only the
\* system message can only come from a reset: the turn pushed its user
\* message before its first await.)
C39_ResetFinal ==
  [][(/\ sessions["c1"] /\ sessions'["c1"]
      /\ Len(turns["c1"]) = 1 /\ Len(turns'["c1"]) = 1
      /\ ~turns["c1"][1].det /\ ~turns'["c1"][1].det
      /\ turns["c1"][1].ph \in {"typing", "chat"}
      /\ history["c1"] = <<SysMsg>>) =>
        history'["c1"] = <<SysMsg>>]_vars

StepEndsCycle(c, i) ==
  /\ i \in 1 .. Len(fins[c])
  /\ fins'[c] = RemoveAt(fins[c], i)

\* C22: the finalizing guard of a session stays true while the Run its
\* finalize cycle started has not delivered its exit notification: the step
\* in which a cycle starts its Run leaves the guard of its session held.
C22_GuardHeldDuringRun ==
  [][\A c \in Channels : \A i \in 1 .. Len(fins[c]) :
       (StepStartsRun(c) /\ StepEndsCycle(c, i) /\ ~fins[c][i].det) =>
         finalizing'[c]]_vars

\* C23: a mode change issued while a finalize cycle is in flight does not
\* change the agent of that cycle: a cycle accepted under a fixed mode whose
\* template is configured starts its Run with that mode's agent.
C23_ModeOfAcceptance ==
  [][\A c \in Channels : \A i \in 1 .. Len(fins[c]) :
       (/\ StepStartsRun(c)
        /\ StepEndsCycle(c, i)
        /\ fins[c][i].asked \in {"codex", "claude"}) =>
         runs'[c][Len(runs'[c])].executor = fins[c][i].asked]_vars

\* what a session owns: its registration, history, mode and the two guards
SessionState(c) ==
  <<sessions[c], history[c], executorMode[c], finalizing[c],
    c \in processingChannels>>

\* C27: sessions are independent.  A step changes the state of at most one
\* session, and a request on channel c leaves the state of every other
\* session unchanged; a message is rejected as busy only when the busy guard
\* of its own channel is held, a finalize request as already finalizing only
\* when the finalizing guard of its own session is held.
C27_Independent ==
  [][\A c \in Channels :
       /\ \A d \in Channels \ {c} :
            /\ SessionState(c)' = SessionState(c) \/ SessionState(d)' = SessionState(d)
            /\ event'.chan = c => SessionState(d)' = SessionState(d)
       /\ (StepIsMessage(c) /\ event'.res = "Busy") => c \in processingChannels
       /\ (StepIsMessage(c) /\ c \notin processingChannels) =>
            event'.res = "accepted"
       /\ (StepIsFinalize(c) /\ event'.res = "AlreadyFinalizing") =>
            EnsuredFinalizing(c)
       /\ (StepIsFinalize(c) /\ ~EnsuredFinalizing(c)) =>
            event'.res \in {"accepted", "EmptyHistory"}]_vars

\* both guards of c1 are held and its mode was changed; a message on c2 has
\* just been accepted and c2 has kept its own mode
C27_Witness ==
  /\ "c1" \in processingChannels
  /\ finalizing["c1"]
  /\ event = Ev("message", "c2", "accepted")
  /\ history["c2"] = <<SysMsg, Msg("user", 1)>>
  /\ executorMode["c1"] # executorMode["c2"]

(***************************************************************************)
(* SpecRouter: selectExecutor on every mode, template set, history text    *)
(* and Chat Client behaviour                                               *)
(***************************************************************************)
\* options.historyText
HistoryTexts == {"h1", "h2"}

\* what options.llm.chat does when the router calls it: it returns a
\* response or throws
\* SpecRouter also answers with responses that name both agents
RouterResponses ==
  ClassifyResponses \cup {<<"codex", " ", "claude">>, <<"claude", " ", "codex">>}

ChatBehaviours ==
  [ok : {TRUE}, response : RouterResponses] \cup {[ok |-> FALSE, response |-> <<>>]}

TemplateSets == [codex : BOOLEAN, claude : BOOLEAN]

InitRouter ==
  /\ TrimIdle
  /\ config = ChatConfig
  /\ SessIdle
  /\ RunIdle
  /\ FlushIdle
  /\ ProbeIdle
  /\ rtMode \in Modes
  /\ rtCfg \in TemplateSets
  /\ rtText \in HistoryTexts
  /\ rtChat \in ChatBehaviours
  /\ rtPc = "idle"
  /\ rtResult = [kind |-> "none", executor |-> "none", reason |-> "none"]
  /\ rtCalls = 0

\* selectExecutor(options) up to its return, its throw or its await
routerSelect ==
  /\ rtPc = "idle"
  /\ LET sel == selectExecutor(rtMode, rtCfg)
     IN IF sel.kind = "classify"
        THEN /\ rtPc' = "classifying"
             /\ rtCalls' = rtCalls + 1
             /\ UNCHANGED rtResult
        ELSE /\ rtPc' = "done"
             /\ rtResult' = sel
             /\ UNCHANGED rtCalls
  /\ UNCHANGED <<rtMode, rtCfg, rtText, rtChat>>
  /\ UNCHANGED <<trimVars, sessVars, runVars, flushVars, probeVars>>

\* the classification call resolves
routerClassified ==
  /\ rtPc = "classifying"
  /\ rtChat.ok
  /\ rtPc' = "done"
  /\ rtResult' = [kind |-> "selected",
                  executor |-> classifiedExecutor(rtChat.response),
                  reason |-> "classified"]
  /\ UNCHANGED <<rtMode, rtCfg, rtText, rtChat, rtCalls>>
  /\ UNCHANGED <<trimVars, sessVars, runVars, flushVars, probeVars>>

\* the classification call rejects: the catch block
routerClassifyFails ==
  /\ rtPc = "classifying"
  /\ ~rtChat.ok
  /\ rtPc' = "done"
  /\ rtResult' = classifyFallback
  /\ UNCHANGED <<rtMode, rtCfg, rtText, rtChat, rtCalls>>
  /\ UNCHANGED <<trimVars, sessVars, runVars, flushVars, probeVars>>

NextRouter ==
  \/ routerSelect
  \/ routerClassified
  \/ routerClassifyFails

SpecRouter == InitRouter /\ [][NextRouter]_vars

Agents == {"codex", "claude"}

\* no template at all, or the mode is fixed to an agent without a template
NoUsableAgent ==
  \/ ~rtCfg.codex /\ ~rtCfg.claude
  \/ rtMode = "codex" /\ ~rtCfg.codex
  \/ rtMode = "claude" /\ ~rtCfg.claude

\* C11: the router fails with a configuration error exactly when no agent
\* has a template or the mode is fixed to an agent without one; it then has
\* issued no Chat Client call and selected no agent.  Otherwise it returns
\* one agent with a reason.
C11_ConfigurationError ==
  /\ (rtPc # "idle" /\ NoUsableAgent) =>
       /\ rtPc = "done"
       /\ rtResult.kind = "error"
       /\ rtResult.executor = "none"
       /\ rtCalls = 0
  /\ (rtPc = "done" /\ ~NoUsableAgent) =>
       /\ rtResult.kind = "selected"
       /\ rtResult.executor \in Agents
       /\ rtResult.reason # "none"

\* the router failed because the mode is fixed to claude and only codex has
\* a template
C11_Witness ==
  /\ rtPc = "done"
  /\ rtResult.kind = "error"
  /\ rtMode = "claude"
  /\ rtCfg.codex
  /\ ~rtCfg.claude

\* the template of agent x is configured
HasTemplate(x) == IF x = "codex" THEN rtCfg.codex ELSE rtCfg.claude

\* C12: with the mode fixed to an agent that has a template the router
\* returns that agent, with the reason "fixed", for every history text and
\* Chat Client behaviour, and issues no Chat Client call.
C12_FixedMode ==
  (rtPc # "idle" /\ rtMode \in Agents /\ HasTemplate(rtMode)) =>
    /\ rtPc = "done"
    /\ rtResult = [kind |-> "selected", executor |-> rtMode, reason |-> "fixed"]
    /\ rtCalls = 0

\* mode claude with both templates, a Chat Client that would answer codex
C12_Witness ==
  /\ rtPc = "done"
  /\ rtMode = "claude"
  /\ rtCfg.codex
  /\ rtCfg.claude
  /\ rtChat = [ok |-> TRUE, response |-> <<"codex">>]
  /\ rtResult.executor = "claude"

\* C13: with mode auto and exactly one template the router returns that
\* agent, with the reason "only", whatever the history text and the Chat
\* Client, and issues no classification call.
C13_OnlyAgent ==
  \A x \in Agents :
    (rtPc # "idle" /\ rtMode = "auto" /\ HasTemplate(x)
       /\ \A y \in Agents \ {x} : ~HasTemplate(y)) =>
      /\ rtPc = "done"
      /\ rtResult = [kind |-> "selected", executor |-> x, reason |-> "only"]
      /\ rtCalls = 0

\* only claude configured, mode auto, a Chat Client that would answer codex
C13_Witness ==
  /\ rtPc = "done"
  /\ rtMode = "auto"
  /\ ~rtCfg.codex
  /\ rtCfg.claude
  /\ rtChat = [ok |-> TRUE, response |-> <<"codex">>]
  /\ rtResult.executor = "claude"

\* the words of a response that are not blanks
RECURSIVE NonBlank(_)
NonBlank(r) ==
  IF r = <<>> THEN <<>>
  ELSE IF Head(r) = " " THEN NonBlank(Tail(r)) ELSE <<Head(r)>> \o NonBlank(Tail(r))

\* the classification of this run was asked for and answered
Classified ==
  /\ rtPc = "done"
  /\ rtMode = "auto"
  /\ rtCfg.codex
  /\ rtCfg.claude
  /\ rtChat.ok

\* C14: with mode auto and both templates, a response that is the word
\* claude, in any letter case and with blanks around it, selects claude;
\* a response that names no agent selects codex.
C14_Classification ==
  Classified =>
    /\ NonBlank(rtChat.response) \in {<<"claude">>, <<"Claude">>} =>
         rtResult.kind = "selected" /\ rtResult.executor = "claude"
    /\ (\A i \in 1 .. Len(rtChat.response) :
          rtChat.response[i] \notin {"claude", "Claude", "codex", "Codex"}) =>
         rtResult.kind = "selected" /\ rtResult.executor = "codex"
    /\ rtCalls = 1

\* the response "Claude " selected claude
C14_Witness ==
  /\ Classified
  /\ rtChat.response = <<"Claude", " ">>
  /\ rtResult.executor = "claude"

\* the first agent identifier that occurs in the lower-cased response
RECURSIVE FirstAgent(_)
FirstAgent(r) ==
  IF r = <<>> THEN "none"
  ELSE IF Head(r) \in {"codex", "Codex"} THEN "codex"
  ELSE IF Head(r) \in {"claude", "Claude"} THEN "claude"
  ELSE FirstAgent(Tail(r))

\* C31: with mode auto and both templates, the first agent identifier that
\* occurs in the response wins: a response in which codex occurs before any
\* occurrence of claude selects codex.
C31_FirstMatchWins ==
  (Classified /\ FirstAgent(rtChat.response) = "codex") =>
    rtResult.kind = "selected" /\ rtResult.executor = "codex"

\* C34: an invocation of the router issues at most one Chat Client call,
\* and none unless the mode is auto and both agents have a template; when
\* it returns an agent, that agent has a template, so commandTemplateFor
\* does not throw for it.
C34_OneCallTemplateExists ==
  /\ rtCalls <= 1
  /\ rtCalls = 1 => (rtMode = "auto" /\ rtCfg.codex /\ rtCfg.claude)
  /\ (rtPc = "done" /\ rtResult.kind = "selected") =>
       /\ rtResult.executor \in Agents
       /\ IF rtResult.executor = "codex" THEN rtCfg.codex ELSE rtCfg.claude

\* the router asked once, was answered claude and returned claude, whose
\* template is configured
C34_Witness ==
  /\ rtPc = "done"
  /\ rtMode = "auto"
  /\ rtCalls = 1
  /\ rtChat = [ok |-> TRUE, response |-> <<"claude">>]
  /\ rtResult.executor = "claude"
  /\ rtCfg.claude

\* C15: with mode auto and both templates, a classification call that fails
\* does not fail the router: it returns codex with the fallback reason.
C15_FailOpen ==
  (rtPc = "done" /\ rtMode = "auto" /\ rtCfg.codex /\ rtCfg.claude /\ ~rtChat.ok) =>
    /\ rtResult = [kind |-> "selected", executor |-> "codex", reason |-> "fallback"]
    /\ rtCalls = 1

\* the classification call failed and the router returned
C15_Witness ==
  /\ rtPc = "done"
  /\ rtMode = "auto"
  /\ rtCfg.codex
  /\ rtCfg.claude
  /\ ~rtChat.ok
  /\ rtCalls = 1
  /\ rtResult.executor = "codex"

(***************************************************************************)
(* Process runner (runCodex)                                               *)
(***************************************************************************)
\* "pty": the node-pty runner with the notifyExit guard;
\* "child_process": the child_process runner with close / error handlers
RunnerVariants == {"pty", "child_process"}

\* What the caller's onExit does when invoked:
\*   "returns"     returns normally (undefined or a promise that fulfils)
\*   "throws"      throws synchronously
\*   "rejects"     returns a promise that rejects
\*   "usesHandle"  reads the {runId, logFilePath} it destructures from the
\*                 return value of the run: a ReferenceError while the run
\*                 has not returned (runExecutorWithPrompt), fine afterwards
CallbackKinds == {"returns", "throws", "rejects", "usesHandle"}

\* pty.spawn either works or throws; child_process.spawn works, throws
\* (errno other than EACCES/EAGAIN/EMFILE/ENFILE/ENOENT) or reports the
\* failure by an 'error' event, which a 'close' event may follow
SpawnOutcomes == {"ok", "failsSync", "failsAsync"}

ExitCodes == {"0", "1", "null"}

\* SpecRunner: data events per Run
MaxData == 2

LogHas(log, line) == \E i \in 1 .. Len(log) : log[i][1] = line

DataLines(log) == Cardinality({i \in 1 .. Len(log) : log[i][1] = "data"})

\* options.onExit?.(code) as seen by the invoking code; inRun is TRUE while
\* runCodex has not returned to its caller
CallbackOutcome(inRun) ==
  CASE rCallback = "returns" -> "returned"
    [] rCallback = "throws" -> "threw"
    [] rCallback = "rejects" -> "rejected"
    [] rCallback = "usesHandle" -> IF inRun THEN "threw" ELSE "returned"

\* notifyExit(code) of the pty runner, after the caller's writeLog left the
\* log as `log`.  A synchronous throw of onExit leaves notifyExit by
\* exception: into the caller of runCodex when inRun, else out of the
\* pty event handler.  Only a rejected promise reaches the .catch handler.
notifyExit(code, log, inRun) ==
  /\ rLog' = log
  /\ IF exitNotified
     THEN UNCHANGED <<exitNotified, rExitCalls, rPendingReject, rThrown>>
     ELSE /\ exitNotified' = TRUE
          /\ rExitCalls' = Append(rExitCalls, code)
          /\ rPendingReject' = (CallbackOutcome(inRun) = "rejected")
          /\ rThrown' = IF CallbackOutcome(inRun) = "threw"
                        THEN (IF inRun THEN "caller" ELSE "uncaught")
                        ELSE rThrown

\* options.onExit?.(code) of the child_process runner: no guard, the
\* returned promise is dropped
onExitUnguarded(code, log) ==
  /\ rLog' = log
  /\ rExitCalls' = Append(rExitCalls, code)
  /\ rThrown' = CASE CallbackOutcome(FALSE) = "threw" -> "uncaught"
                  [] CallbackOutcome(FALSE) = "rejected" -> "unhandledRejection"
                  [] OTHER -> rThrown
  /\ UNCHANGED <<exitNotified, rPendingReject>>

\* what the process writes in one data event, as tokens: text, an escape
\* sequence, a line end.  node-pty delivers decoded strings; child_process
\* delivers Buffers, which may end or begin inside a multi-byte character
\* ("e1" and "e2" are the two halves of one)
DataChunks(variant) ==
  {<<"x">>, <<"ESC">>, <<"ESC", "y", "CRLF">>} \cup
  (IF variant = "child_process" THEN {<<"x", "e1">>, <<"e2">>} ELSE {})

\* Buffer.prototype.toString("utf8"): an incomplete sequence is replaced by
\* U+FFFD
toStringUtf8(data) ==
  [i \in 1 .. Len(data) |-> IF data[i] \in {"e1", "e2"} THEN "FFFD" ELSE data[i]]

\* the text of a data event as the runner appends it
Logged(variant, data) ==
  IF variant = "child_process" THEN toStringUtf8(data) ELSE data

RECURSIVE sanitizeForDiscord(_)
\* stripVTControlCharacters, then \r\n and \r become \n
sanitizeForDiscord(text) ==
  IF text = <<>> THEN <<>>
  ELSE IF Head(text) = "ESC" THEN sanitizeForDiscord(Tail(text))
  ELSE IF Head(text) \in {"CRLF", "CR"} THEN <<"LF">> \o sanitizeForDiscord(Tail(text))
  ELSE <<Head(text)>> \o sanitizeForDiscord(Tail(text))

\* `${channelId}-${Date.now()}`
RunId(channelId, now) == <<channelId, now>>
\* `codex-${timestamp()}-${runId}.log`
LogFilePath(ts, runId) == <<ts, runId>>
\* the { runId, logFilePath } of a call that read the clock as `now` and,
\* for the file name, as `ts`
Handle(channelId, now, ts) ==
  [runId |-> RunId(channelId, now),
   logFilePath |-> LogFilePath(ts, RunId(channelId, now))]

\* an onLog call: what it was handed, and how long the log was by then
LogCall(chunk, log) == [chunk |-> chunk, at |-> Len(log)]

\* runCodex(options) of the pty runner: the command line is logged, then
\* pty.spawn is tried; its failure is logged and notified inside the call
runCodexPty ==
  /\ rVariant = "pty"
  /\ rPc = "idle"
  /\ rHandles' = Append(rHandles, Handle("c1", rClock, rClock))
  /\ IF rSpawn = "ok"
     THEN /\ rLog' = <<<<"command">>>>
          /\ rProc' = "running"
          /\ rPc' = "returned"
          /\ UNCHANGED <<rExitCalls, exitNotified, rThrown, rPendingReject>>
     ELSE /\ notifyExit("null", <<<<"command">>, <<"pty spawn error">>>>, TRUE)
          /\ rProc' = "failed"
          /\ rPc' = IF CallbackOutcome(TRUE) = "threw" THEN "threw" ELSE "returned"
  /\ UNCHANGED <<rVariant, rCallback, rSpawn, rArrived, rOnLog, rClock>>
  /\ UNCHANGED <<trimVars, sessVars, flushVars, routeVars, probeVars>>

\* runCodex(options) of the child_process runner; its writeLog hands every
\* line it appends to onLog as well
runCodexChild ==
  /\ rVariant = "child_process"
  /\ rPc = "idle"
  /\ rHandles' = Append(rHandles, Handle("c1", rClock, rClock))
  /\ rLog' = <<<<"command">>>>
  /\ rOnLog' = Append(rOnLog, LogCall(<<"command">>, rLog'))
  /\ rProc' = CASE rSpawn = "ok" -> "running"
                [] rSpawn = "failsSync" -> "failed"
                [] rSpawn = "failsAsync" -> "spawnFailed"
  /\ rPc' = IF rSpawn = "failsSync" THEN "threw" ELSE "returned"
  /\ rThrown' = IF rSpawn = "failsSync" THEN "caller" ELSE rThrown
  /\ UNCHANGED <<rVariant, rCallback, rSpawn, rExitCalls, exitNotified,
                 rPendingReject, rArrived, rClock>>
  /\ UNCHANGED <<trimVars, sessVars, flushVars, routeVars, probeVars>>

\* ptyProcess.onData: the chunk is appended, then its sanitized form handed
\* to onLog unless empty; child.stdout/stderr.on("data"): writeLog appends
\* the chunk and hands it to onLog as it is
onData(data) ==
  /\ rProc = "running"
  /\ DataLines(rLog) < MaxData
  /\ rArrived' = Append(rArrived, data)
  /\ rLog' = Append(rLog, <<"data", Logged(rVariant, data)>>)
  /\ rOnLog' = IF rVariant = "child_process"
               THEN Append(rOnLog, LogCall(Logged(rVariant, data), rLog'))
               ELSE IF sanitizeForDiscord(data) # <<>>
               THEN Append(rOnLog, LogCall(sanitizeForDiscord(data), rLog'))
               ELSE rOnLog
  /\ UNCHANGED <<rVariant, rCallback, rSpawn, rPc, rProc, rExitCalls,
                 exitNotified, rThrown, rPendingReject, rClock, rHandles>>
  /\ UNCHANGED <<trimVars, sessVars, flushVars, routeVars, probeVars>>

\* ptyProcess.onExit(event)
ptyOnExit(code) ==
  /\ rVariant = "pty"
  /\ rProc = "running"
  /\ notifyExit(code, Append(rLog, <<"exit code", code>>), FALSE)
  /\ rProc' = "exited"
  /\ UNCHANGED <<rVariant, rCallback, rSpawn, rPc, rArrived, rOnLog, rClock,
                 rHandles>>
  /\ UNCHANGED <<trimVars, sessVars, flushVars, routeVars, probeVars>>

\* child.on("error"): the spawn failure reported asynchronously
childOnError ==
  /\ rVariant = "child_process"
  /\ rProc = "spawnFailed"
  /\ onExitUnguarded("null", Append(rLog, <<"spawn error">>))
  /\ rOnLog' = Append(rOnLog, LogCall(<<"spawn error">>, rLog'))
  /\ rProc' = "errored"
  /\ UNCHANGED <<rVariant, rCallback, rSpawn, rPc, rArrived, rClock, rHandles>>
  /\ UNCHANGED <<trimVars, sessVars, flushVars, routeVars, probeVars>>

\* child.on("close"): after the process ended, or after a failed spawn once
\* the stdio streams have closed (code is then the negative errno)
childOnClose(code) ==
  /\ rVariant = "child_process"
  /\ \/ rProc = "running" /\ code \in ExitCodes
     \/ rProc = "errored" /\ code = "errno"
  /\ onExitUnguarded(code, Append(rLog, <<"exit code", code>>))
  /\ rOnLog' = Append(rOnLog, LogCall(<<"exit code", code>>, rLog'))
  /\ rProc' = "closed"
  /\ UNCHANGED <<rVariant, rCallback, rSpawn, rPc, rArrived, rClock, rHandles>>
  /\ UNCHANGED <<trimVars, sessVars, flushVars, routeVars, probeVars>>

\* the .catch handler attached by notifyExit runs for a rejected promise
onExitRejectionCaught ==
  /\ rPendingReject
  /\ rLog' = Append(rLog, <<"onExit callback error">>)
  /\ rPendingReject' = FALSE
  /\ UNCHANGED <<rVariant, rCallback, rSpawn, rPc, rProc, rExitCalls,
                 exitNotified, rThrown, rArrived, rOnLog, rClock, rHandles>>
  /\ UNCHANGED <<trimVars, sessVars, flushVars, routeVars, probeVars>>

InitRunner ==
  /\ TrimIdle
  /\ config = ChatConfig
  /\ SessIdle
  /\ FlushIdle
  /\ RouteIdle
  /\ ProbeIdle
  /\ rVariant \in RunnerVariants
  /\ rCallback \in CallbackKinds
  /\ rSpawn \in SpawnOutcomes
  /\ rVariant = "pty" => rSpawn # "failsAsync"
  /\ rPc = "idle"
  /\ rProc = "none"
  /\ rLog = <<>>
  /\ rExitCalls = <<>>
  /\ exitNotified = FALSE
  /\ rThrown = "none"
  /\ rPendingReject = FALSE
  /\ rArrived = <<>>
  /\ rOnLog = <<>>
  /\ rClock = 0
  /\ rHandles = <<>>

NextRunner ==
  \/ runCodexPty
  \/ runCodexChild
  \/ \E data \in DataChunks(rVariant) : onData(data)
  \/ \E code \in ExitCodes : ptyOnExit(code)
  \/ childOnError
  \/ \E code \in ExitCodes \cup {"errno"} : childOnClose(code)
  \/ onExitRejectionCaught

SpecRunner == InitRunner /\ [][NextRunner]_vars

\* the Run is over: its process exited, or its spawn failed and every event
\* the failure raises has been delivered
RunOver == rProc \in {"exited", "failed", "closed"}

\* C3: onExit is invoked at most once per Run, and exactly once when the
\* process has exited or the spawn has failed.
C3_ExitOnce ==
  /\ Len(rExitCalls) <= 1
  /\ RunOver => Len(rExitCalls) = 1

\* C4: when the pty cannot be spawned, runCodex does not throw: it returns
\* its handle, exactly one exit notification with code null is delivered and
\* the log holds the command line and then a spawn-error line.
C4_SpawnFailure ==
  (rVariant = "pty" /\ rSpawn = "failsSync" /\ rPc # "idle") =>
    /\ rPc = "returned"
    /\ rThrown = "none"
    /\ rExitCalls = <<"null">>
    /\ rLog[1] = <<"command">>
    /\ LogHas(rLog, "pty spawn error") \/ LogHas(rLog, "exit code")

\* C5: when onExit throws or rejects, once the rejection handler has had its
\* turn the error is a diagnostic line of the log, nothing propagated to the
\* caller of runCodex (or out of the event handler), and onExit was invoked
\* once.
C5_CallbackThrows ==
  (/\ rVariant = "pty"
   /\ rCallback \in {"throws", "rejects"}
   /\ rExitCalls # <<>>
   /\ ~rPendingReject) =>
    /\ LogHas(rLog, "onExit callback error")
    /\ rThrown = "none"
    /\ Len(rExitCalls) = 1

\* the texts of the data entries of a log, in the order of the log
DataOf(log) ==
  LET entries == SelectSeq(log, LAMBDA e : e[1] = "data")
  IN [i \in 1 .. Len(entries) |-> entries[i][2]]

\* C24: the first entry of the log is the command line, also when the spawn
\* failed; the data events are in the log one entry each, verbatim and in
\* the order of their arrival; and whenever onLog is handed a chunk, the
\* event it belongs to is already the last entry of the log and the chunk is
\* that event's sanitized form.
C24_LogOrder ==
  rPc # "idle" =>
    /\ rLog[1] = <<"command">>
    /\ DataOf(rLog) = rArrived
    /\ \A j \in 1 .. Len(rOnLog) :
         /\ rOnLog[j].at \in 1 .. Len(rLog)
         /\ rLog[rOnLog[j].at][1] = "data" =>
              rOnLog[j].chunk = sanitizeForDiscord(rLog[rOnLog[j].at][2])

\* C24 for the node-pty runner alone
C24_LogOrderPty == rVariant = "pty" => C24_LogOrder

\* C25: once the exit notification of a Run has been delivered, the log
\* begins with the command line and its last line is the exit-code line
\* with the code of the notification; nothing follows that line.
C25_LogEndsWithExitCode ==
  rExitCalls # <<>> =>
    /\ rLog[1] = <<"command">>
    /\ rLog[Len(rLog)] = <<"exit code", rExitCalls[1]>>

\* C30: runCodex has returned its handle to the caller before the exit
\* callback of the Run is invoked: no step that invokes onExit starts while
\* the call of runCodex is still to return.
C30_HandleBeforeExit ==
  [][rExitCalls' # rExitCalls => rPc = "returned"]_vars

(***************************************************************************)
(* SpecIds: the handles of successive calls of runCodex                    *)
(***************************************************************************)
\* SpecIds: calls of runCodex
MaxRuns == 3
\* SpecIds: the last millisecond of the clock
MaxClock == 2

\* the clock moves on to the next millisecond
clockTick ==
  /\ rClock < MaxClock
  /\ rClock' = rClock + 1
  /\ UNCHANGED <<rVariant, rCallback, rSpawn, rPc, rProc, rLog, rExitCalls,
                 exitNotified, rThrown, rPendingReject, rArrived, rOnLog,
                 rHandles>>
  /\ UNCHANGED <<trimVars, sessVars, flushVars, routeVars, probeVars>>

\* runCodex is called for channel c: runId is built from Date.now(), the
\* log file name from timestamp() a few statements later, when the clock
\* may have moved on, and from runId; the file is created by the first
\* writeLog
runCodexIds(c) ==
  /\ Len(rHandles) < MaxRuns
  /\ \E ts \in {rClock, rClock + 1} :
       /\ ts <= MaxClock
       /\ rClock' = ts
       /\ rHandles' = Append(rHandles, Handle(c, rClock, ts))
  /\ UNCHANGED <<rVariant, rCallback, rSpawn, rPc, rProc, rLog, rExitCalls,
                 exitNotified, rThrown, rPendingReject, rArrived, rOnLog>>
  /\ UNCHANGED <<trimVars, sessVars, flushVars, routeVars, probeVars>>

InitIds ==
  /\ TrimIdle
  /\ config = ChatConfig
  /\ SessIdle
  /\ RunIdle
  /\ FlushIdle
  /\ RouteIdle
  /\ ProbeIdle

NextIds ==
  \/ clockTick
  \/ \E c \in Channels : runCodexIds(c)

SpecIds == InitIds /\ [][NextIds]_vars

\* C26: any two calls of runCodex return distinct runIds and distinct log
\* file paths, calls for the same channel included.
C26_DistinctHandles ==
  \A i, j \in 1 .. Len(rHandles) :
    i # j =>
      /\ rHandles[i].runId # rHandles[j].runId
      /\ rHandles[i].logFilePath # rHandles[j].logFilePath

\* C26 for calls of different channels alone
C26_DistinctAcrossChannels ==
  \A i, j \in 1 .. Len(rHandles) :
    rHandles[i].runId[1] # rHandles[j].runId[1] =>
      /\ rHandles[i].runId # rHandles[j].runId
      /\ rHandles[i].logFilePath # rHandles[j].logFilePath

(***************************************************************************)
(* Streaming flush policy (finalizeAndRun: onLog, onExit, flushStream)     *)
(***************************************************************************)
\* if (streamBuffer.length >= 1200)
FlushThreshold == 1200
\* chunkText(safe, 1700)
PieceLength == 1700

\* SpecFlush: chunks handed to onLog per run
MaxChunks == 3

\* A string is a sequence of segments: k = "t" for a stretch of
\* non-whitespace characters, "w" for a stretch of whitespace; n is its
\* length, id the serial number of the chunk it came in.
Seg(k, n, id) == [k |-> k, n |-> n, id |-> id]

\* The chunks a run may hand to onLog (id is the chunk's serial number)
Chunks(id) ==
  { <<Seg("t", 1, id)>>,
    <<Seg("t", 1199, id)>>,
    <<Seg("t", 1800, id)>>,
    <<Seg("w", 1, id)>>,
    <<Seg("t", 1199, id), Seg("w", 1, id)>> }

RECURSIVE StrLen(_)
\* String.prototype.length
StrLen(s) == IF s = <<>> THEN 0 ELSE s[1].n + StrLen(Tail(s))

RECURSIVE TrimStartSegs(_)
TrimStartSegs(s) ==
  IF s = <<>> THEN <<>>
  ELSE IF s[1].k = "w" THEN TrimStartSegs(Tail(s)) ELSE s

RECURSIVE TrimEndSegs(_)
TrimEndSegs(s) ==
  IF s = <<>> THEN <<>>
  ELSE IF s[Len(s)].k = "w" THEN TrimEndSegs(SubSeq(s, 1, Len(s) - 1)) ELSE s

\* String.prototype.trim(): whitespace is removed at both ends only
Trim(s) == TrimEndSegs(TrimStartSegs(s))

\* chunkText(input, maxLength).length: the number of pieces sent
Pieces(s) ==
  IF StrLen(s) <= PieceLength THEN 1
  ELSE (StrLen(s) + PieceLength - 1) \div PieceLength

\* Mutant: the threshold test with > instead of >=
ReachesThresholdStrict(s) == StrLen(s) > FlushThreshold

\* streamBuffer.length >= 1200
ReachesThreshold(s) == StrLen(s) >= FlushThreshold

OutputSend(em, piece) == [kind |-> "output", em |-> em, piece |-> piece]
StatusSend == [kind |-> "status", em |-> 0, piece |-> 0]

\* Mutant: flushStream without its `if (flushing) return`.
flushStreamReentrant(force, buf) ==
  IF ~force /\ ~ReachesThreshold(buf)
  THEN /\ streamBuffer' = buf
       /\ UNCHANGED <<flushing, outbound, emissions, sent>>
  ELSE /\ streamBuffer' = <<>>
       /\ IF Trim(buf) = <<>>
          THEN UNCHANGED <<flushing, outbound, emissions, sent>>
          ELSE /\ flushing' = TRUE
               /\ emissions' = Append(emissions, Trim(buf))
               /\ outbound' = Pieces(Trim(buf)) - 1
               /\ sent' = Append(sent, OutputSend(Len(emissions) + 1, 1))

\* flushStream(force) up to its first await, on the buffer `buf`; the first
\* piece is sent in the same step
flushStream(force, buf) ==
  IF flushing \/ (~force /\ ~ReachesThreshold(buf))
  THEN /\ streamBuffer' = buf
       /\ UNCHANGED <<flushing, outbound, emissions, sent>>
  ELSE /\ streamBuffer' = <<>>
       /\ IF Trim(buf) = <<>>
          THEN UNCHANGED <<flushing, outbound, emissions, sent>>
          ELSE /\ flushing' = TRUE
               /\ emissions' = Append(emissions, Trim(buf))
               /\ outbound' = Pieces(Trim(buf)) - 1
               /\ sent' = Append(sent, OutputSend(Len(emissions) + 1, 1))

\* onLog(cleanChunk)
onLog(chunk) ==
  /\ fExit = "running"
  /\ nChunks < MaxChunks
  /\ nChunks' = nChunks + 1
  /\ fed' = fed \o chunk
  /\ IF ReachesThreshold(streamBuffer \o chunk)
     THEN /\ flushTimer' = FALSE
          /\ flushStream(TRUE, streamBuffer \o chunk)
     ELSE /\ streamBuffer' = streamBuffer \o chunk
          /\ flushTimer' = TRUE
          /\ UNCHANGED <<flushing, outbound, emissions, sent>>
  /\ UNCHANGED fExit
  /\ UNCHANGED <<trimVars, sessVars, runVars, routeVars, probeVars>>

\* the setTimeout callback of scheduleFlush
flushTimerFires ==
  /\ flushTimer
  /\ flushTimer' = FALSE
  /\ flushStream(TRUE, streamBuffer)
  /\ UNCHANGED <<fed, nChunks, fExit>>
  /\ UNCHANGED <<trimVars, sessVars, runVars, routeVars, probeVars>>

\* a channel.send of sendLongCodeBlock resolves: the next piece is sent, or
\* the emission is over (finally: flushing = false) and an onExit awaiting
\* it sends the status line
pieceSent ==
  /\ flushing
  /\ IF outbound > 0
     THEN /\ outbound' = outbound - 1
          /\ sent' = Append(sent, OutputSend(Len(emissions),
                                             Pieces(emissions[Len(emissions)]) - outbound + 1))
          /\ UNCHANGED <<flushing, fExit>>
     ELSE /\ flushing' = FALSE
          /\ UNCHANGED outbound
          /\ IF fExit = "waiting"
             THEN sent' = Append(sent, StatusSend) /\ fExit' = "done"
             ELSE UNCHANGED <<sent, fExit>>
  /\ UNCHANGED <<streamBuffer, flushTimer, emissions, fed, nChunks>>
  /\ UNCHANGED <<trimVars, sessVars, runVars, routeVars, probeVars>>

\* onExit(code): the timer is cleared and flushStream(true) awaited; when
\* it returns without an emission of its own the status line is sent at once
onExit ==
  /\ fExit = "running"
  /\ flushTimer' = FALSE
  /\ IF flushing \/ Trim(streamBuffer) = <<>>
     THEN /\ streamBuffer' = IF flushing THEN streamBuffer ELSE <<>>
          /\ sent' = Append(sent, StatusSend)
          /\ fExit' = "done"
          /\ UNCHANGED <<flushing, outbound, emissions>>
     ELSE /\ flushStream(TRUE, streamBuffer)
          /\ fExit' = "waiting"
  /\ UNCHANGED <<fed, nChunks>>
  /\ UNCHANGED <<trimVars, sessVars, runVars, routeVars, probeVars>>

InitFlush ==
  /\ TrimIdle
  /\ config = ChatConfig
  /\ SessIdle
  /\ RunIdle
  /\ FlushIdle
  /\ RouteIdle
  /\ ProbeIdle

NextFlush ==
  \/ \E chunk \in Chunks(nChunks + 1) : onLog(chunk)
  \/ flushTimerFires
  \/ pieceSent
  \/ onExit

SpecFlush == InitFlush /\ [][NextFlush]_vars

RECURSIVE Concat(_)
\* the emissions joined, oldest first
Concat(ss) == IF ss = <<>> THEN <<>> ELSE ss[1] \o Concat(Tail(ss))

RECURSIVE TextOf(_)
\* the non-whitespace segments of a string, in order
TextOf(s) ==
  IF s = <<>> THEN <<>>
  ELSE IF s[1].k = "t" THEN <<s[1]>> \o TextOf(Tail(s)) ELSE TextOf(Tail(s))

\* the run is over and nothing is left that could flush: the status line is
\* out, no emission is outbound, no delayed flush is pending
FlushQuiescent == fExit = "done" /\ ~flushing /\ ~flushTimer

\* C6: when the run has come to rest, the emissions joined hold every
\* chunk handed to onLog, in the original order (here already for the
\* non-whitespace characters alone).
C6_NoLoss == FlushQuiescent => TextOf(Concat(emissions)) = TextOf(fed)

\* the step taken is an onLog
StepIsOnLog == nChunks' = nChunks + 1
\* the chunk of that step
StepChunk == SubSeq(fed', Len(fed) + 1, Len(fed'))

\* the part of C7 that does not depend on what the emission holds
C7_BelowAndCancel ==
  (StepIsOnLog /\ ~flushing) =>
    IF StrLen(streamBuffer \o StepChunk) < FlushThreshold
    THEN /\ emissions' = emissions
         /\ sent' = sent
         /\ flushTimer'
         /\ streamBuffer' = streamBuffer \o StepChunk
    ELSE /\ ~flushTimer'
         /\ streamBuffer' = <<>>
         /\ Len(emissions') <= Len(emissions) + 1

C7_WholeBuffer ==
  (StepIsOnLog /\ ~flushing /\ StrLen(streamBuffer \o StepChunk) >= FlushThreshold) =>
    /\ emissions' = Append(emissions, streamBuffer \o StepChunk)
    /\ flushing'

C7_TrimmedBuffer ==
  (StepIsOnLog /\ ~flushing /\ StrLen(streamBuffer \o StepChunk) >= FlushThreshold) =>
    IF Trim(streamBuffer \o StepChunk) = <<>>
    THEN emissions' = emissions /\ ~flushing'
    ELSE /\ emissions' = Append(emissions, Trim(streamBuffer \o StepChunk))
         /\ flushing'
         /\ sent' = Append(sent, OutputSend(Len(emissions'), 1))

C8_StatusLast ==
  \A i \in 1 .. Len(sent) :
    sent[i].kind = "status" =>
      /\ i = Len(sent)
      /\ TextOf(streamBuffer) = <<>>
      /\ ~flushTimer

\* the buffer a step works on: the old buffer, with the chunk of an onLog
StepBuffer == IF StepIsOnLog THEN streamBuffer \o StepChunk ELSE streamBuffer

\* the single-flight part of C32: an emission starts only when none is
\* outbound, and while one is outbound every step, a flush call included,
\* leaves the buffer as it is (with the chunk of an onLog appended)
C32_NoReentry ==
  /\ emissions' # emissions =>
       /\ ~flushing
       /\ flushing'
       /\ Len(emissions') = Len(emissions) + 1
       /\ SubSeq(emissions', 1, Len(emissions)) = emissions
  /\ flushing => streamBuffer' = StepBuffer

BufferedHasTrigger ==
  (streamBuffer # <<>> /\ ~flushing /\ fExit = "running") => flushTimer

\* C33: a delayed flush is scheduled only by a chunk that leaves the buffer
\* below the threshold while none is pending (so at most one is pending),
\* and whenever the buffer is non-empty, no emission is outbound and the
\* run has not exited, a delayed flush is pending.
C33_DelayedFlush ==
  [][/\ (~flushTimer /\ flushTimer') =>
          /\ StepIsOnLog
          /\ StrLen(streamBuffer \o StepChunk) < FlushThreshold
     /\ BufferedHasTrigger']_vars

(***************************************************************************)
(* The CLI session (startCli): chat turns with project probes, /reset,     *)
(* /engine, /finalize and /run.  The loop reads one line at a time and     *)
(* awaits its work before reading the next.                                *)
(***************************************************************************)
\* SpecProbe: user messages read per session
MaxProbeTurns == 2
\* SpecCli: user messages and /finalize, /run commands read per session
MaxCliLines == 3

\* extractProjectNames(text): the names in order of first occurrence, each
\* once (they are collected in a Set)
MessageSubjects ==
  {<<>>, <<"s1">>, <<"s2">>, <<"s1", "s2">>, <<"s2", "s1">>}

\* what the summarization call returns, as its words
SummaryTexts == {<<"m1">>, <<" ", "m2", " ">>}

\* the fixed text summarizeProjectProbe returns when its call fails: two
\* fixed lines, the first with the project name
FallbackSummary(projectName) == <<"fallback", projectName>>

\* what the finalizer and the rewrite call return: an instruction, or a
\* text with one of the questionnaire phrases
CliPromptTexts == {"p1", "q1"}

\* looksLikeQuestionnaire(text): one of the patterns matches
looksLikeQuestionnaire(text) == text = "q1"

\* what the explanation call returns, as its words
ExplainTexts == {<<"e1">>, <<"e1", " ">>}

\* how the Run of /run ends for its caller: the exit code handed to onExit,
\* or an exception of runSelectedExecutor inside the promise executor
RunEndings == {"0", "1", "threw"}

CliEv(op, chat, res) == [op |-> op, chat |-> chat, res |-> res]
ChatDid(ok) == IF ok THEN "ok" ELSE "failed"

\* the content of the user message the turn pushes: the line, followed by
\* the memo header and the context block when there is one
UserContent(line, context) ==
  IF context = <<>> THEN <<line>> ELSE <<line, "memo", context>>

\* the combined context block: each resolved name with its cache entry
ContextOf(resolved, cache) ==
  [i \in 1 .. Len(resolved) |-> <<resolved[i], cache[resolved[i]].text>>]

\* fallbackExplanation(executorLabel, exitCode): one text for exit code 0,
\* another for every other code
fallbackExplanation(executor, code) ==
  <<IF code = "0" THEN "succeeded" ELSE "failed", executor>>

\* Mutant: the catch block of explainExecutorResult rethrows.
explainExecutorResultRethrows(ok, text, executor, code) ==
  [threw |-> ~ok, text |-> TrimEnd(TrimStart(text))]

\* explainExecutorResult: the trimmed explanation, or the fallback text when
\* the call failed; it never throws
explainExecutorResult(ok, text, executor, code) ==
  [threw |-> FALSE,
   text |-> IF ok THEN TrimEnd(TrimStart(text))
            ELSE fallbackExplanation(executor, code)]

\* summarizeProjectProbe: the trimmed summary, or the fallback text when the
\* call failed; it never throws
summarizeProjectProbe(ok, text, projectName) ==
  IF ok THEN TrimEnd(TrimStart(text)) ELSE FallbackSummary(projectName)

\* Mutant: /finalize goes on to start the agent as /run does.
startsRunAlways(cmd) == TRUE

\* the command that goes on to select and start an agent after saving
startsRun(cmd) == cmd = "run"

\* a line that is not a command is read: resolveProjectContext is called
\* with the names the line carries
cliMessage(names) ==
  /\ pPc.ph = "idle"
  /\ pTurns' = pTurns + 1
  /\ pPc' = [ph |-> "resolving", names |-> names, resolved |-> <<>>,
             line |-> names]
  /\ cliChats' = 0
  /\ cliEvent' = CliEv("message", "none", "read")
  /\ UNCHANGED <<pCache, pRuns, pSumm, pOut, pLatest, cliMode, cliHistory,
                 cliSaved, cliRuns, cliOp, cliOut>>
  /\ UNCHANGED <<trimVars, sessVars, runVars, flushVars, routeVars>>

\* the loop of resolveProjectContext with no name left (the result is
\* returned) or with a name the cache has
resolveCached ==
  /\ pPc.ph = "resolving"
  /\ IF pPc.names = <<>>
     THEN /\ pOut' = ContextOf(pPc.resolved, pCache)
          /\ pPc' = [pPc EXCEPT !.ph = "chat", !.names = <<>>, !.resolved = <<>>]
          /\ cliEvent' = CliEv("resolve", "none", "returned")
     ELSE /\ pCache[Head(pPc.names)].has
          /\ pPc' = [pPc EXCEPT !.names = Tail(@),
                                !.resolved = Append(@, Head(pPc.names))]
          /\ cliEvent' = CliEv("resolve", "none", "reused")
          /\ UNCHANGED pOut
  /\ UNCHANGED <<pCache, pRuns, pSumm, pTurns, pLatest, cliMode, cliHistory, cliChats,
                 cliSaved, cliRuns, cliOp, cliOut>>
  /\ UNCHANGED <<trimVars, sessVars, runVars, flushVars, routeVars>>

\* runExecutorForProjectProbe for a name the cache lacks: selectExecutor
\* throws (the resolution fails and the CLI goes on with the turn), selects
\* without a call (the probe Run is started) or issues its classification
\* call
probeStarts ==
  /\ pPc.ph = "resolving"
  /\ pPc.names # <<>>
  /\ ~pCache[Head(pPc.names)].has
  /\ LET sel == selectExecutor(cliMode, config)
     IN CASE sel.kind = "error" ->
               /\ pPc' = [pPc EXCEPT !.ph = "chat", !.names = <<>>, !.resolved = <<>>]
               /\ pOut' = <<>>
               /\ cliEvent' = CliEv("probe", "none", "ConfigurationError")
               /\ UNCHANGED pRuns
          [] sel.kind = "selected" ->
               /\ pRuns' = [pRuns EXCEPT ![Head(pPc.names)] = @ + 1]
               /\ pPc' = [pPc EXCEPT !.ph = "running"]
               /\ cliEvent' = CliEv("probe", "none", "started")
               /\ UNCHANGED pOut
          [] sel.kind = "classify" ->
               /\ pPc' = [pPc EXCEPT !.ph = "routing"]
               /\ cliEvent' = CliEv("probe", "none", "classify")
               /\ UNCHANGED <<pRuns, pOut>>
  /\ UNCHANGED <<pCache, pSumm, pTurns, pLatest, cliMode, cliHistory, cliChats,
                 cliSaved, cliRuns, cliOp, cliOut>>
  /\ UNCHANGED <<trimVars, sessVars, runVars, flushVars, routeVars>>

\* the classification call of the probe settles, with a response or with
\* the fallback: the probe Run of the chosen agent is started
probeRouteSettles(ok) ==
  /\ pPc.ph = "routing"
  /\ pRuns' = [pRuns EXCEPT ![Head(pPc.names)] = @ + 1]
  /\ pPc' = [pPc EXCEPT !.ph = "running"]
  /\ cliEvent' = CliEv("probeRoute", ChatDid(ok), "started")
  /\ UNCHANGED <<pCache, pSumm, pOut, pTurns, pLatest, cliMode, cliHistory, cliChats,
                 cliSaved, cliRuns, cliOp, cliOut>>
  /\ UNCHANGED <<trimVars, sessVars, runVars, flushVars, routeVars>>

\* Mutant: a failed resolution ends the turn.
probeRunEndsAborts(ok) ==
  /\ pPc.ph = "running"
  /\ IF ok
     THEN /\ pSumm' = [pSumm EXCEPT ![Head(pPc.names)] = @ + 1]
          /\ pPc' = [pPc EXCEPT !.ph = "summarizing"]
          /\ cliEvent' = CliEv("probeRun", "none", "exited")
          /\ UNCHANGED pOut
     ELSE /\ pPc' = ProbeWaiting
          /\ pOut' = <<>>
          /\ cliEvent' = CliEv("probeRun", "none", "RunError")
          /\ UNCHANGED pSumm
  /\ UNCHANGED <<pCache, pRuns, pTurns, pLatest, cliMode, cliHistory, cliChats,
                 cliSaved, cliRuns, cliOp, cliOut>>
  /\ UNCHANGED <<trimVars, sessVars, runVars, flushVars, routeVars>>

\* the probe Run ends: onExit resolves the promise and the summarization
\* call is issued; or runSelectedExecutor threw inside the promise executor
\* (spawn threw, or the runner notified the spawn failure inside the call
\* and `onExit: () => resolve({ logFilePath })` read logFilePath before its
\* initialisation): the resolution fails and the CLI goes on with the turn
probeRunEnds(ok) ==
  /\ pPc.ph = "running"
  /\ IF ok
     THEN /\ pSumm' = [pSumm EXCEPT ![Head(pPc.names)] = @ + 1]
          /\ pPc' = [pPc EXCEPT !.ph = "summarizing"]
          /\ cliEvent' = CliEv("probeRun", "none", "exited")
          /\ UNCHANGED pOut
     ELSE /\ pPc' = [pPc EXCEPT !.ph = "chat", !.names = <<>>, !.resolved = <<>>]
          /\ pOut' = <<>>
          /\ cliEvent' = CliEv("probeRun", "none", "RunError")
          /\ UNCHANGED pSumm
  /\ UNCHANGED <<pCache, pRuns, pTurns, pLatest, cliMode, cliHistory, cliChats,
                 cliSaved, cliRuns, cliOp, cliOut>>
  /\ UNCHANGED <<trimVars, sessVars, runVars, flushVars, routeVars>>

\* summarizeProjectProbe settles: options.cache.set(projectName, summary)
probeSummarized(ok, text) ==
  /\ pPc.ph = "summarizing"
  /\ pCache' = [pCache EXCEPT ![Head(pPc.names)] =
                  [has |-> TRUE,
                   text |-> summarizeProjectProbe(ok, text, Head(pPc.names))]]
  /\ pPc' = [ph |-> "resolving", line |-> pPc.line, names |-> Tail(pPc.names),
             resolved |-> Append(pPc.resolved, Head(pPc.names))]
  /\ cliEvent' = CliEv("summarize", ChatDid(ok), "cached")
  /\ UNCHANGED <<pRuns, pSumm, pOut, pTurns, pLatest, cliMode, cliHistory, cliChats,
                 cliSaved, cliRuns, cliOp, cliOut>>
  /\ UNCHANGED <<trimVars, sessVars, runVars, flushVars, routeVars>>

\* the rest of the turn: the message is pushed onto the history, the reply
\* call settles (its failure is reported, the message stays)
cliTurnEnds(ok) ==
  /\ pPc.ph = "chat"
  /\ pPc' = ProbeWaiting
  /\ cliHistory' =
       LET pushed == trimHistory(Append(cliHistory,
                                        Msg("user", UserContent(pPc.line, pOut))),
                                 config.maxHistoryMessages)
       IN IF ok
          THEN trimHistory(Append(pushed, Msg("assistant", "reply")),
                           config.maxHistoryMessages)
          ELSE pushed
  /\ cliChats' = cliChats + 1
  /\ cliEvent' = CliEv("turn", ChatDid(ok), "done")
  /\ UNCHANGED <<pCache, pRuns, pSumm, pOut, pTurns, pLatest, cliMode,
                 cliSaved, cliRuns, cliOp, cliOut>>
  /\ UNCHANGED <<trimVars, sessVars, runVars, flushVars, routeVars>>

\* /reset: the history is reset, the cache cleared, the latest prompt dropped
cliReset ==
  /\ pPc.ph = "idle"
  /\ pCache' = [s \in Subjects |-> NoEntry]
  /\ pLatest' = NoLatest
  /\ cliHistory' = <<SysMsg>>
  /\ cliEvent' = CliEv("reset", "none", "done")
  /\ UNCHANGED <<pPc, pRuns, pSumm, pOut, pTurns, cliMode, cliChats, cliSaved, cliRuns,
                 cliOp, cliOut>>
  /\ UNCHANGED <<trimVars, sessVars, runVars, flushVars, routeVars>>

\* /engine codex|claude|auto
cliEngine(mode) ==
  /\ pPc.ph = "idle"
  /\ cliMode' = mode
  /\ cliEvent' = CliEv("engine", "none", "done")
  /\ UNCHANGED <<pCache, pPc, pRuns, pSumm, pOut, pTurns, pLatest, cliHistory, cliChats,
                 cliSaved, cliRuns, cliOp, cliOut>>
  /\ UNCHANGED <<trimVars, sessVars, runVars, flushVars, routeVars>>

\* /finalize or /run is read: buildFinalPrompt throws on a history without
\* messages (the catch block reports it), else issues the finalizer call
cliCommand(cmd) ==
  /\ pPc.ph = "idle"
  /\ pTurns' = pTurns + 1
  /\ IF formatHistoryForFinalizer(cliHistory) # <<>>
     THEN /\ pPc' = [ProbeWaiting EXCEPT !.ph = "build"]
          /\ cliOp' = [NoCommand EXCEPT !.cmd = cmd,
                                        !.saved0 = Len(cliSaved),
                                        !.runs0 = Len(cliRuns)]
          /\ cliEvent' = CliEv(cmd, "none", "accepted")
     ELSE /\ cliEvent' = CliEv(cmd, "none", "EmptyHistory")
          /\ UNCHANGED <<pPc, cliOp>>
  /\ UNCHANGED <<pCache, pRuns, pSumm, pOut, pLatest, cliMode, cliHistory, cliChats,
                 cliSaved, cliRuns, cliOut>>
  /\ UNCHANGED <<trimVars, sessVars, runVars, flushVars, routeVars>>

\* runExecutorWithPrompt: the Run of the agent is started with the prompt
RunStarted(executor, prompt) ==
  /\ cliRuns' = Append(cliRuns, [executor |-> executor, prompt |-> prompt])
  /\ pPc' = [ProbeWaiting EXCEPT !.ph = "exec"]
  /\ cliOp' = [cliOp EXCEPT !.executor = executor, !.prompt = prompt]

\* the command is over: the loop reads the next line
CommandOver ==
  /\ pPc' = ProbeWaiting
  /\ cliOp' = NoCommand

\* the finalizer call, or the rewrite call, settles.  A failure ends the
\* command in its catch block.  A first text that looks like a
\* questionnaire is sent to the rewrite call.  Otherwise the prompt is
\* saved and recorded as the latest; /finalize is over, /run selects the
\* agent (which may fail, or need the classification call) and starts it.
cliPromptSettles(ok, p) ==
  /\ pPc.ph \in {"build", "rewrite"}
  /\ IF ~ok
     THEN /\ CommandOver
          /\ cliEvent' = CliEv(cliOp.cmd, "failed", "ProviderError")
          /\ UNCHANGED <<pLatest, cliSaved, cliRuns>>
     ELSE IF pPc.ph = "build" /\ looksLikeQuestionnaire(p)
     THEN /\ pPc' = [pPc EXCEPT !.ph = "rewrite"]
          /\ cliEvent' = CliEv("prompt", "ok", "rewrite")
          /\ UNCHANGED <<pLatest, cliSaved, cliRuns, cliOp>>
     ELSE /\ cliSaved' = Append(cliSaved, PromptFile(p))
          /\ pLatest' = [path |-> Len(cliSaved) + 1, text |-> p]
          /\ IF ~startsRun(cliOp.cmd)
             THEN /\ CommandOver
                  /\ cliEvent' = CliEv(cliOp.cmd, "ok", "saved")
                  /\ UNCHANGED cliRuns
             ELSE LET sel == selectExecutor(cliMode, config)
                  IN CASE sel.kind = "error" ->
                            /\ CommandOver
                            /\ cliEvent' = CliEv(cliOp.cmd, "ok", "ConfigurationError")
                            /\ UNCHANGED cliRuns
                       [] sel.kind = "selected" ->
                            /\ RunStarted(sel.executor, p)
                            /\ cliEvent' = CliEv(cliOp.cmd, "ok", "started")
                       [] sel.kind = "classify" ->
                            /\ pPc' = [pPc EXCEPT !.ph = "route"]
                            /\ cliOp' = [cliOp EXCEPT !.prompt = p]
                            /\ cliEvent' = CliEv("prompt", "ok", "classify")
                            /\ UNCHANGED cliRuns
  /\ UNCHANGED <<pCache, pRuns, pSumm, pOut, pTurns, cliMode, cliHistory, cliChats, cliOut>>
  /\ UNCHANGED <<trimVars, sessVars, runVars, flushVars, routeVars>>

\* the classification call of /run settles: the Run of the chosen agent
\* (of codex when the call failed) is started
cliRouteSettles(ok, response) ==
  /\ pPc.ph = "route"
  /\ RunStarted(IF ok THEN classifiedExecutor(response) ELSE classifyFallback.executor,
                cliOp.prompt)
  /\ cliEvent' = CliEv(cliOp.cmd, ChatDid(ok), "started")
  /\ UNCHANGED <<pCache, pRuns, pSumm, pOut, pTurns, pLatest, cliMode,
                 cliHistory, cliChats, cliSaved, cliOut>>
  /\ UNCHANGED <<trimVars, sessVars, runVars, flushVars, routeVars>>

\* the Run of /run ends: onExit resolves the promise and the explanation
\* call is issued; or runSelectedExecutor threw inside the promise executor
\* and the catch block of /run reports it
cliRunExits(how) ==
  /\ pPc.ph = "exec"
  /\ IF how = "threw"
     THEN /\ CommandOver
          /\ cliEvent' = CliEv(cliOp.cmd, "none", "RunError")
     ELSE /\ pPc' = [pPc EXCEPT !.ph = "explain"]
          /\ cliOp' = [cliOp EXCEPT !.code = how]
          /\ cliEvent' = CliEv("exit", "none", how)
  /\ UNCHANGED <<pCache, pRuns, pSumm, pOut, pTurns, pLatest, cliMode,
                 cliHistory, cliChats, cliSaved, cliRuns, cliOut>>
  /\ UNCHANGED <<trimVars, sessVars, runVars, flushVars, routeVars>>

\* explainExecutorResult settles: its text is written and /run is over
cliExplainSettles(ok, text) ==
  /\ pPc.ph = "explain"
  /\ LET out == explainExecutorResult(ok, text, cliOp.executor, cliOp.code)
     IN IF out.threw
        THEN /\ cliEvent' = CliEv("explain", ChatDid(ok), "ExplainError")
             /\ UNCHANGED cliOut
        ELSE /\ cliEvent' = CliEv("explain", ChatDid(ok), "done")
             /\ cliOut' = out.text
  /\ CommandOver
  /\ UNCHANGED <<pCache, pRuns, pSumm, pOut, pTurns, pLatest, cliMode,
                 cliHistory, cliChats, cliSaved, cliRuns>>
  /\ UNCHANGED <<trimVars, sessVars, runVars, flushVars, routeVars>>

(***************************************************************************)
(* SpecProbe: chat turns naming subjects, /reset and /engine               *)
(***************************************************************************)
\* the configurations a CLI session starts with: every template set, the
\* mode auto (/engine sets the others)
CliConfigs == {cfg \in ValidConfigs : cfg.executorMode = "auto"}

InitProbe ==
  /\ TrimIdle
  /\ config \in CliConfigs
  /\ SessIdle
  /\ RunIdle
  /\ FlushIdle
  /\ RouteIdle
  /\ CliStart(config.executorMode)

NextProbe ==
  \/ \E names \in MessageSubjects : cliMessage(names) /\ pTurns' <= MaxProbeTurns
  \/ resolveCached
  \/ probeStarts
  \/ \E ok \in BOOLEAN : probeRouteSettles(ok)
  \/ \E ok \in BOOLEAN : probeRunEnds(ok)
  \/ \E ok \in BOOLEAN, text \in SummaryTexts : probeSummarized(ok, text)
  \/ \E ok \in BOOLEAN : cliTurnEnds(ok)
  \/ cliReset
  \/ \E mode \in Modes : cliEngine(mode)

SpecProbe == InitProbe /\ [][NextProbe]_vars

\* C19: within one session a subject is probed by at most one Process Runner
\* execution and summarized by at most one call, however often it is
\* resolved.
C19_ProbeOnce ==
  \A s \in Subjects : pRuns[s] <= 1 /\ pSumm[s] <= 1

\* C20: a cache entry, once written, is never removed or overwritten by any
\* operation of the session.
C20_WriteOnce ==
  [][\A s \in Subjects : pCache[s].has => pCache'[s] = pCache[s]]_vars

\* C21: when a message names several subjects, the resolution ends with an
\* entry for every one of them, whatever failed on the way: a failure of one
\* subject's probe or summarization does not abort the others.
C21_FailureIsolated ==
  [][(/\ pPc.ph \in {"resolving", "routing", "running", "summarizing"}
      /\ Len(pPc.resolved) + Len(pPc.names) >= 2
      /\ pPc'.ph = "chat")
     => Len(pOut') = Len(pPc.resolved) + Len(pPc.names)]_vars

(***************************************************************************)
(* SpecCli: chat turns, /reset, /engine, /finalize and /run                *)
(***************************************************************************)
\* SpecCli: the subjects its messages name
CliMessageSubjects == {<<>>, <<"s1">>}

NextCli ==
  \/ \E names \in CliMessageSubjects : cliMessage(names) /\ pTurns' <= MaxCliLines
  \/ resolveCached
  \/ probeStarts
  \/ \E ok \in BOOLEAN : probeRouteSettles(ok)
  \/ \E ok \in BOOLEAN : probeRunEnds(ok)
  \/ \E ok \in BOOLEAN, text \in SummaryTexts : probeSummarized(ok, text)
  \/ \E ok \in BOOLEAN : cliTurnEnds(ok)
  \/ cliReset
  \/ \E mode \in Modes : cliEngine(mode)
  \/ \E cmd \in {"finalize", "run"} : cliCommand(cmd) /\ pTurns' <= MaxCliLines
  \/ \E ok \in BOOLEAN, p \in CliPromptTexts : cliPromptSettles(ok, p)
  \/ \E ok \in BOOLEAN, response \in ClassifyResponses : cliRouteSettles(ok, response)
  \/ \E how \in RunEndings : cliRunExits(how)
  \/ \E ok \in BOOLEAN, text \in ExplainTexts : cliExplainSettles(ok, text)

SpecCli == InitProbe /\ [][NextCli]_vars

\* the step ends a /finalize or /run command
StepEndsCommand == cliOp.cmd # "none" /\ cliOp'.cmd = "none"

\* C28: /finalize generates and saves the final instruction and never starts
\* a Run; a successful /run saves the instruction and starts exactly one Run,
\* of the selected agent and with that instruction; after either command the
\* latest saved prompt path and text are those the command saved.
C28_FinalizeSavesRunStarts ==
  [][/\ cliOp.cmd = "finalize" => cliRuns' = cliRuns
     /\ (StepEndsCommand /\ cliEvent'.res \in {"saved", "done"}) =>
          /\ Len(cliSaved') = cliOp.saved0 + 1
          /\ pLatest'.path = Len(cliSaved')
          /\ cliSaved'[pLatest'.path] = <<pLatest'.text, "\n">>
     /\ (StepEndsCommand /\ cliEvent'.res = "saved") =>
          /\ cliOp.cmd = "finalize"
          /\ Len(cliRuns') = cliOp.runs0
     /\ (StepEndsCommand /\ cliEvent'.res = "done") =>
          /\ cliOp.cmd = "run"
          /\ Len(cliRuns') = cliOp.runs0 + 1
          /\ cliRuns'[Len(cliRuns')].prompt = pLatest'.text
          /\ cliMode \in {"codex", "claude"} =>
               cliRuns'[Len(cliRuns')].executor = cliMode]_vars

\* /finalize saved one instruction, then /run saved another, ran claude with
\* it and explained the result
C28_Witness ==
  /\ cliEvent = CliEv("explain", "ok", "done")
  /\ Len(cliSaved) = 2
  /\ Len(cliRuns) = 1
  /\ pLatest = [path |-> 2, text |-> "p1"]
  /\ cliRuns[1] = [executor |-> "claude", prompt |-> "p1"]

\* C29: a failure of the call that explains a finished Run, or of the call
\* that summarizes a probe log, does not fail the flow around it: /run ends
\* normally with the fixed fallback explanation written, and the resolution
\* goes on with the fixed fallback summary stored for the subject.
C29_FallbackNotFailure ==
  [][/\ (cliEvent'.op = "explain" /\ cliEvent'.chat = "failed") =>
          /\ cliEvent'.res = "done"
          /\ cliOut' = <<IF cliOp.code = "0" THEN "succeeded" ELSE "failed",
                         cliOp.executor>>
          /\ pPc'.ph = "idle"
     /\ (cliEvent'.op = "summarize" /\ cliEvent'.chat = "failed") =>
          /\ pCache'[Head(pPc.names)] =
               [has |-> TRUE, text |-> <<"fallback", Head(pPc.names)>>]
          /\ pPc'.ph = "resolving"
          /\ pPc'.resolved = Append(pPc.resolved, Head(pPc.names))]_vars

\* the summary of s1 failed and its fallback text is cached; later the
\* explanation of a failed claude Run failed and /run ended with the
\* fallback explanation
C29_Witness ==
  /\ cliEvent = CliEv("explain", "failed", "done")
  /\ cliOut = <<"failed", "claude">>
  /\ pCache["s1"] = [has |-> TRUE, text |-> <<"fallback", "s1">>]

\* C40: a failed project-context resolution does not end the turn: the
\* history is untouched and the turn goes on to its reply call with the raw
\* line and no context.  A resolution that returns for a line with subjects
\* hands over the context block of those subjects.  The turn pushes one user
\* message, the raw line alone or followed by the memo header and the
\* context block, and issues exactly one reply call, whose reply follows
\* the user message when the call succeeds.
C40_ResolutionFailureIsolated ==
  [][/\ cliEvent'.res \in {"ConfigurationError", "RunError"}
          /\ cliEvent'.op \in {"probe", "probeRun"} =>
          /\ pPc'.ph = "chat"
          /\ pPc'.line = pPc.line
          /\ pOut' = <<>>
          /\ cliChats' = 0
          /\ cliHistory' = cliHistory
     /\ (cliEvent'.op = "resolve" /\ cliEvent'.res = "returned"
            /\ pPc.line # <<>>) =>
          /\ pPc'.ph = "chat"
          /\ pPc'.line = pPc.line
          /\ pOut' = ContextOf(pPc.line, pCache)
          /\ pOut' # <<>>
          /\ cliChats' = 0
     /\ cliEvent'.op = "turn" =>
          LET n == Len(cliHistory')
              pushed == Msg("user", IF pOut = <<>>
                                    THEN <<pPc.line>>
                                    ELSE <<pPc.line, "memo", pOut>>)
          IN /\ cliChats' = 1
             /\ IF cliEvent'.chat = "ok"
                THEN /\ n = Len(cliHistory) + 2
                     /\ cliHistory'[n].role = "assistant"
                     /\ cliHistory'[n - 1] = pushed
                ELSE /\ n = Len(cliHistory) + 1
                     /\ cliHistory'[n] = pushed
             /\ SubSeq(cliHistory', 1, Len(cliHistory)) = cliHistory]_vars

\* the resolution for s1 failed (nothing is cached for s1) and the turn was
\* answered: the raw line alone is in the history, with its reply
C40_Witness ==
  /\ cliEvent = CliEv("turn", "ok", "done")
  /\ cliChats = 1
  /\ ~pCache["s1"].has
  /\ cliHistory = <<SysMsg, Msg("user", <<<<"s1">>>>), Msg("assistant", "reply")>>

(***************************************************************************)
(* SpecTrim                                                                *)
(***************************************************************************)
InitTrim ==
  /\ tHist = <<SysMsg>>
  /\ tMax \in MinHistoryMessages .. (MinHistoryMessages + MaxSpread)
  /\ tOut = <<>>
  /\ config = ChatConfig
  /\ SessIdle
  /\ RunIdle
  /\ FlushIdle
  /\ RouteIdle
  /\ ProbeIdle

\* history.push({role, content}); the content is the message's serial number
TrimPush(r) ==
  /\ tOut = <<>>
  /\ Len(tHist) < 1 + tMax + MaxExtra
  /\ tHist' = Append(tHist, Msg(r, Len(tHist)))
  /\ UNCHANGED <<tMax, tOut>>
  /\ UNCHANGED <<sessVars, runVars, flushVars, routeVars, probeVars>>

TrimCall ==
  /\ tOut = <<>>
  /\ tOut' = <<trimHistory(tHist, tMax)>>
  /\ UNCHANGED <<tHist, tMax>>
  /\ UNCHANGED <<sessVars, runVars, flushVars, routeVars, probeVars>>

NextTrim ==
  \/ \E r \in {"user", "assistant"} : TrimPush(r)
  \/ TrimCall

SpecTrim == InitTrim /\ [][NextTrim]_vars

\* C10: a history of more than max + 1 entries is trimmed to exactly max + 1:
\* the system message followed by the most recent max messages in their
\* original order; a history of at most max + 1 entries is returned unchanged.
C10_AppendAndTrim ==
  tOut # <<>> =>
    LET out == tOut[1]
        n == Len(tHist)
    IN IF n <= tMax + 1
       THEN out = tHist
       ELSE /\ Len(out) = tMax + 1
            /\ out[1] = SysMsg
            /\ \A i \in 1 .. tMax : out[i + 1] = tHist[n - tMax + i]

\* more than one message is dropped by the trim
C10_Witness ==
  /\ tOut # <<>>
  /\ Len(tHist) = tMax + 1 + MaxExtra
  /\ Len(tOut[1]) = tMax + 1

====
